---- MODULE Spec2Model ----
(***************************************************************************)
(* Three-stage stress-propagation engine (Van den End mechanics) over a    *)
(* bank / NBFI relationship network.                                       *)
(*                                                                         *)
(* Arithmetic.  The program computes in floating point; the model computes *)
(* in fixed point on integers and rounds every product towards minus       *)
(* infinity:                                                               *)
(*   money            1 unit = 0.001 mm       (U units to the mm)          *)
(*   fractions, rates 1 unit = 0.0001         (Den4 to the whole)          *)
(*   sensitivities    1 unit = 0.00001        (SensDen to the whole)       *)
(*   yields, spreads  1 unit = 0.001 bp / %   (YU to the bp)               *)
(*   bid-ask spreads  1 unit = 0.01 bp                                     *)
(*   vix              index points                                         *)
(* Action names are Python strings tested by substring; the model states   *)
(* each substring test as the set of the action names, among those the     *)
(* agents can record, that pass it.                                        *)
(***************************************************************************)
EXTENDS Integers, Sequences, FiniteSets, TLC

\* ------------------------------------------------------------------ bounds
NDays == 2          \* horizon_days of the scenario
MaxIter == 2        \* largest feedback_iterations tried
QMax == 3           \* range of the liquidity values tried on should_react

\* --------------------------------------------------------------- scales
Eps == 1                    \* the 0.001 floor of _compute_amplification
U == 1000 * Eps             \* one mm
Den4 == 10 * U              \* 1.0 as a fraction
SensDen == 100 * U          \* 1.0 as a sensitivity
YU == U                     \* one basis point / one per cent

\* -------------------------------------------------------------- helpers
Max(a, b) == IF a >= b THEN a ELSE b
Min(a, b) == IF a <= b THEN a ELSE b
Abs(x) == IF x < 0 THEN -x ELSE x

\* floor(x * n / d) without forming x * n
MulDiv(x, n, d) == (x \div d) * n + ((x % d) * n) \div d

EmptyMap == [k \in {} |-> 0]
Put(m, k, v) == (k :> v) @@ m

RECURSIVE SumF(_, _)
SumF(f, S) == IF S = {} THEN 0
              ELSE LET x == CHOOSE y \in S : TRUE IN f[x] + SumF(f, S \ {x})
SumMap(m) == SumF(m, DOMAIN m)

RECURSIVE MaxF(_, _)
MaxF(f, S) == IF S = {} THEN 0
              ELSE LET x == CHOOSE y \in S : TRUE IN Max(f[x], MaxF(f, S \ {x}))

Range(s) == {s[i] : i \in DOMAIN s}

\* integer square root, for np.sqrt
Isqrt(n) == CHOOSE r \in 0..300 : r * r <= n /\ (r + 1) * (r + 1) > n

\* ------------------------------------------------------------ config.py
REACTION_PARAMS ==
  [ bank |-> [ sell_gilt |-> <<100, 200>>, sell_corp |-> <<80, 20>> ],
    ldi_pension |-> [ repo_ask_pct |-> 850, sell_gilt |-> <<150, 150>>,
                      sell_il_gilt |-> <<80, 20>>, sell_corp |-> <<50, 15>> ],
    hedge_fund |-> [ repo_ask_pct |-> 850, sell_gilt |-> <<100, 100>>,
                     sell_corp |-> <<100, 25>>, sell_equity |-> <<100, 25>>,
                     sell_basis_unwind |-> <<100, 40>>,
                     multi_strategy |-> <<50, 30>> ],
    insurer |-> [ repo_ask_pct |-> 800, sell_gilt |-> <<150, 100>>,
                  sell_corp |-> <<80, 20>>, sell_equity |-> <<50, 25>> ],
    oef_mmf |-> [ sell_gilt |-> <<100, 200>>, sell_corp |-> <<80, 20>> ] ]

\* multipliers in thousandths
BUFFER_PARAMS ==
  [ bank |-> [ boe_eligible_mult |-> 150, cet1_mult |-> 80,
               wholesale_funding_runoff_mult |-> 100, floor_pct_of_bs |-> 2 ],
    ldi_pension |-> [ cash_mult |-> 1000, unencumbered_collateral_mult |-> 300,
                      floor_pct_of_aum |-> 5 ],
    hedge_fund |-> [ cash_mult |-> 1000, floor_pct_of_aum |-> 5 ],
    insurer |-> [ cash_mult |-> 500, committed_repo_mult |-> 200,
                  rcf_mult |-> 200, floor_pct_of_assets |-> 2 ],
    oef_mmf |-> [ cash_mult |-> 500, floor_pct_of_aum |-> 10 ] ]

\* bank_counterparty_loss_coeff in thousandths, refusal threshold in millionths
FEEDBACK_PARAMS ==
  [ bank_counterparty_loss_coeff |-> 5,
    bank_repo_refusal_stress_threshold |-> 266353 ]

\* ------------------------------------------------- agents/base.py records
LiquidityPosition == [B0 |-> 0, B1 |-> 0, B2 |-> 0, B3 |-> 0, E1 |-> 0, E2 |-> 0]

BalanceSheetItem(amount, category, sens) ==
  [amount_mm |-> amount, category |-> category, sensitivity_map |-> sens]

\* BaseAgent.__init__; the fields of the five variants are carried by every
\* record and stay at their defaults in the variants that do not have them
BaseAgent(name, agent_type, theta, size_factor) ==
  [ name |-> name, agent_type |-> agent_type, theta |-> theta,
    size_factor |-> size_factor,
    balance_sheet |-> EmptyMap,
    liquidity |-> LiquidityPosition,
    has_reacted |-> FALSE,
    reactions |-> EmptyMap,
    cumulative_margin_calls_mm |-> 0,
    cumulative_asset_sales_mm |-> 0,
    cumulative_gilt_sales_mm |-> 0,
    cumulative_repo_demand_mm |-> 0,
    cumulative_redemptions_mm |-> 0,
    \* bank
    risk_appetite |-> 0, total_bs_mm |-> 0,
    gilt_mm_appetite_mm |-> 0, corp_mm_appetite_mm |-> 0,
    mm_appetite_consumed_pct |-> 0, corp_appetite_consumed_pct |-> 0,
    repo_capacity_mm |-> 0,
    willingness_to_roll_pct |-> 0, willingness_to_extend_new_pct |-> 0,
    \* hedge fund
    strategy |-> "", aum_mm |-> 0, gross_leverage |-> 0,
    var_utilisation |-> 0, repo_dep_mult |-> 0,
    primary_sensitivities |-> {},
    repo_refused_by_all |-> FALSE, has_ever_sought_repo |-> FALSE,
    \* LDI / pension
    yield_buffer_bps |-> 0, ldi_leverage_ratio |-> 0,
    recap_available_mm |-> 0, recap_speed_days |-> 0, recap_used_mm |-> 0,
    yield_buffer_consumed_pct |-> 0,
    \* insurer
    hedge_ratio |-> 0, dirty_csa_pct |-> 0, total_mm |-> 0,
    \* pooled fund
    pension_investor_pct |-> 0, insurer_investor_pct |-> 0,
    cumulative_redemption_inflows_mm |-> 0 ]

Has(a, item) == item \in DOMAIN a.balance_sheet
Amt(a, item) == a.balance_sheet[item].amount_mm
\* `x.amount_mm if x else 0.0`
AmtOr0(a, item) == IF Has(a, item) THEN Amt(a, item) ELSE 0
\* `x and x.amount_mm > 0`
Holds(a, item) == Has(a, item) /\ Amt(a, item) > 0

\* ---------------------------------------------------- variants' __init__
\* config amounts are money units; *_pct are thousandths of the base amount
BankAgent(config) ==
  LET bs == config.balance_sheet
      mm == config.market_making_capacity
      rp == config.repo_provision
  IN [ BaseAgent(config.name, "bank", config.theta, config.total_bs_mm) EXCEPT
       !.risk_appetite = config.risk_appetite,
       !.total_bs_mm = config.total_bs_mm,
       !.gilt_mm_appetite_mm = mm.gilt_appetite_mm,
       !.corp_mm_appetite_mm = mm.corp_bond_appetite_mm,
       !.mm_appetite_consumed_pct = mm.appetite_consumed_pct,
       !.repo_capacity_mm = rp.total_capacity_mm,
       !.willingness_to_roll_pct = rp.willingness_to_roll_pct,
       !.willingness_to_extend_new_pct = rp.willingness_to_extend_new_pct,
       !.corp_appetite_consumed_pct = 0,
       !.balance_sheet =
         ( "Gilt Holdings" :> BalanceSheetItem(bs.gilt_holdings_mm, "liquid_asset",
               [gilt_10y_yield |-> -45, gilt_30y_yield |-> -65]) ) @@
         ( "Corporate Bond Holdings" :> BalanceSheetItem(bs.corp_bond_holdings_mm, "liquid_asset",
               [ig_corp_spread |-> -40, hy_corp_spread |-> -20]) ) @@
         ( "Equity Portfolio" :> BalanceSheetItem(bs.equity_portfolio_mm, "liquid_asset",
               [equity |-> 1000]) ) @@
         ( "Repo Lending" :> BalanceSheetItem(bs.repo_lending_mm, "liquid_asset", EmptyMap) ) @@
         ( "Derivative Assets" :> BalanceSheetItem(bs.derivative_assets_mm, "illiquid_asset",
               [gilt_10y_yield |-> -20, sonia_swap |-> -20]) ) @@
         ( "BoE Facility Eligible" :> BalanceSheetItem(bs.boe_facility_eligible_mm, "liquid_asset", EmptyMap) ) @@
         ( "Wholesale Funding" :> BalanceSheetItem(bs.wholesale_funding_mm, "liability", EmptyMap) ) @@
         ( "CET1 Buffer" :> BalanceSheetItem(bs.cet1_buffer_mm, "equity", EmptyMap) ) ]

\* repo dependence multipliers, in tenths
REPO_DEP_MULT == [low |-> 2, medium |-> 5, high |-> 8, very_high |-> 10]

_build_gilt_sensitivity(primary, secondary) ==
  LET s10 == IF "gilt_10y_yield" \in primary THEN ("gilt_10y_yield" :> -60)
             ELSE IF "gilt_10y_yield" \in secondary THEN ("gilt_10y_yield" :> -20)
             ELSE EmptyMap
      s30 == IF "gilt_30y_yield" \in primary THEN ("gilt_30y_yield" :> -80) ELSE EmptyMap
      ss == IF "sonia_swap" \in primary THEN ("sonia_swap" :> -30) ELSE EmptyMap
      sens == s10 @@ s30 @@ ss
  IN IF DOMAIN sens # {} THEN sens ELSE ("gilt_10y_yield" :> -20)

_build_equity_sensitivity(primary, secondary) ==
  IF "equity" \in primary THEN ("equity" :> 1200)
  ELSE IF "equity" \in secondary THEN ("equity" :> 500)
  ELSE ("equity" :> 200)

_build_corp_sensitivity(primary, secondary) ==
  LET sig == IF "ig_corp_spread" \in primary THEN ("ig_corp_spread" :> -50) ELSE EmptyMap
      shy == IF "hy_corp_spread" \in primary THEN ("hy_corp_spread" :> -30) ELSE EmptyMap
      sens == sig @@ shy
  IN IF DOMAIN sens # {} THEN sens ELSE ("ig_corp_spread" :> -20)

\* gross_leverage is in tenths; the exposure fractions are the midpoints
\* _sample_range returns, in thousandths
HedgeFundAgent(config) ==
  LET aum_mm == config.aum_mm
      profile == config.strategy_profile
      primary == profile.primary_sensitivities
      secondary == profile.secondary_sensitivities
      repo_dep_mult == REPO_DEP_MULT[config.repo_dependence]
      gross_exposure == MulDiv(aum_mm, config.gross_leverage, 10)
  IN [ BaseAgent(config.name, "hedge_fund", config.theta, aum_mm) EXCEPT
       !.strategy = config.strategy,
       !.aum_mm = aum_mm,
       !.gross_leverage = config.gross_leverage,
       !.var_utilisation = config.var_utilisation,
       !.repo_dep_mult = repo_dep_mult,
       !.primary_sensitivities = primary,
       !.repo_refused_by_all = FALSE,
       !.has_ever_sought_repo = FALSE,
       !.balance_sheet =
         ( "Gilt Positions (net)" :> BalanceSheetItem(
               MulDiv(gross_exposure, profile.gilt_exposure_pct, 1000), "liquid_asset",
               _build_gilt_sensitivity(primary, secondary)) ) @@
         ( "Equity Positions" :> BalanceSheetItem(
               MulDiv(gross_exposure, profile.equity_exposure_pct, 1000), "liquid_asset",
               _build_equity_sensitivity(primary, secondary)) ) @@
         ( "Corp Bond Positions" :> BalanceSheetItem(
               MulDiv(gross_exposure, profile.corp_bond_exposure_pct, 1000), "liquid_asset",
               _build_corp_sensitivity(primary, secondary)) ) @@
         ( "Basis Trade Positions" :> BalanceSheetItem(
               MulDiv(gross_exposure, profile.basis_trade_pct, 1000), "liquid_asset",
               [bond_futures_basis |-> -100, gilt_10y_yield |-> -30]) ) @@
         ( "Cash & Margin" :> BalanceSheetItem(MulDiv(aum_mm, 10, 100), "liquid_asset", EmptyMap) ) @@
         ( "Repo Borrowing" :> BalanceSheetItem(
               MulDiv(MulDiv(gross_exposure, repo_dep_mult, 10), 3, 10), "liability", EmptyMap) ) @@
         ( "Margin Posted" :> BalanceSheetItem(MulDiv(aum_mm, 8, 100), "illiquid_asset", EmptyMap) ) ]

\* ldi_leverage_ratio is in tenths
LDIPensionAgent(config) ==
  LET bs == config.balance_sheet
      recap == config.recapitalisation
      aum_mm == bs.gilt_holdings_mm + bs.il_gilt_holdings_mm
                + bs.corp_bond_holdings_mm + bs.cash_and_mmf_mm
  IN [ BaseAgent(config.name, "ldi_pension", config.theta, aum_mm) EXCEPT
       !.yield_buffer_bps = config.yield_buffer_bps,
       !.ldi_leverage_ratio = bs.ldi_leverage_ratio,
       !.aum_mm = aum_mm,
       !.recap_available_mm = recap.pension_scheme_can_recapitalise_mm,
       !.recap_speed_days = recap.recapitalisation_speed_days,
       !.recap_used_mm = 0,
       !.yield_buffer_consumed_pct = 0,
       !.balance_sheet =
         ( "Gilt Holdings" :> BalanceSheetItem(bs.gilt_holdings_mm, "liquid_asset",
               [gilt_10y_yield |-> -60, gilt_30y_yield |-> -90]) ) @@
         ( "IL Gilt Holdings" :> BalanceSheetItem(bs.il_gilt_holdings_mm, "liquid_asset",
               [il_gilt_yield |-> -70]) ) @@
         ( "Corporate Bond Holdings" :> BalanceSheetItem(bs.corp_bond_holdings_mm, "liquid_asset",
               [ig_corp_spread |-> -40]) ) @@
         ( "Cash & MMF" :> BalanceSheetItem(bs.cash_and_mmf_mm, "liquid_asset", EmptyMap) ) @@
         ( "Derivatives Exposure" :> BalanceSheetItem(bs.derivatives_exposure_notional_mm, "off_bs",
               [gilt_10y_yield |-> -30, sonia_swap |-> -30, gilt_30y_yield |-> -40]) ) @@
         ( "Unencumbered Collateral" :> BalanceSheetItem(bs.unencumbered_collateral_mm, "liquid_asset", EmptyMap) ) @@
         ( "Margin Posted" :> BalanceSheetItem(bs.margin_posted_mm, "illiquid_asset", EmptyMap) ) ]

InsurerAgent(config) ==
  LET bs == config.balance_sheet
      total_mm == bs.gilt_holdings_mm + bs.corp_bond_holdings_mm
                  + bs.equity_portfolio_mm + bs.cash_and_liquid_mm
  IN [ BaseAgent(config.name, "insurer", config.theta, total_mm) EXCEPT
       !.hedge_ratio = config.hedge_ratio,
       !.dirty_csa_pct = config.dirty_csa_pct,
       !.total_mm = total_mm,
       !.balance_sheet =
         ( "Gilt Holdings" :> BalanceSheetItem(bs.gilt_holdings_mm, "liquid_asset",
               [gilt_10y_yield |-> -50, gilt_30y_yield |-> -70]) ) @@
         ( "Corporate Bond Holdings" :> BalanceSheetItem(bs.corp_bond_holdings_mm, "liquid_asset",
               [ig_corp_spread |-> -40, hy_corp_spread |-> -20]) ) @@
         ( "Equity Portfolio" :> BalanceSheetItem(bs.equity_portfolio_mm, "liquid_asset",
               [equity |-> 1000]) ) @@
         ( "Derivative Hedges" :> BalanceSheetItem(bs.derivative_hedges_notional_mm, "off_bs",
               [gilt_10y_yield |-> -20, sonia_swap |-> -20]) ) @@
         ( "Cash & Liquid" :> BalanceSheetItem(bs.cash_and_liquid_mm, "liquid_asset", EmptyMap) ) @@
         ( "Margin Posted" :> BalanceSheetItem(bs.margin_posted_mm, "illiquid_asset", EmptyMap) ) @@
         ( "Committed Repo Lines" :> BalanceSheetItem(bs.committed_repo_lines_mm, "liquid_asset", EmptyMap) ) @@
         ( "RCF Available" :> BalanceSheetItem(bs.rcf_available_mm, "liquid_asset", EmptyMap) ) ]

\* the strategy_composition fractions are the midpoints _mid returns
OEFMMFAgent(config) ==
  LET aum_mm == config.aum_mm
      strat_comp == config.strategy_composition
      cash_pct == IF strat_comp.cash_pct = 0 THEN config.cash_buffer_pct
                  ELSE strat_comp.cash_pct
  IN [ BaseAgent(config.name, "oef_mmf", config.theta, aum_mm) EXCEPT
       !.strategy = config.strategy,
       !.aum_mm = aum_mm,
       !.pension_investor_pct = config.pension_investor_pct,
       !.insurer_investor_pct = config.insurer_investor_pct,
       !.cumulative_redemption_inflows_mm = 0,
       !.balance_sheet =
         ( "Gilt Holdings" :> BalanceSheetItem(MulDiv(aum_mm, strat_comp.gilt_pct, 1000), "liquid_asset",
               [gilt_10y_yield |-> -50, gilt_30y_yield |-> -60]) ) @@
         ( "Corporate Bond Holdings" :> BalanceSheetItem(MulDiv(aum_mm, strat_comp.corp_pct, 1000), "liquid_asset",
               [ig_corp_spread |-> -40, hy_corp_spread |-> -20]) ) @@
         ( "ABS Holdings" :> BalanceSheetItem(MulDiv(aum_mm, strat_comp.abs_pct, 1000), "illiquid_asset",
               [ig_corp_spread |-> -20]) ) @@
         ( "Cash Buffer" :> BalanceSheetItem(MulDiv(aum_mm, cash_pct, 1000), "liquid_asset", EmptyMap) ) ]

\* ------------------------------------------------------------- market.py
Vars13 == { "gilt_10y_yield", "gilt_30y_yield", "il_gilt_yield", "ust_10y_yield",
            "ig_corp_spread", "hy_corp_spread", "equity", "sonia_swap",
            "fx_gbpusd", "repo_haircut_gilt", "repo_haircut_corp",
            "bond_futures_basis", "vix" }

\* MarketState.__init__
MarketState ==
  [ gilt_10y_yield_chg_bps |-> 0, gilt_30y_yield_chg_bps |-> 0,
    il_gilt_yield_chg_bps |-> 0, ust_10y_yield_chg_bps |-> 0,
    ig_corp_spread_chg_bps |-> 0, hy_corp_spread_chg_bps |-> 0,
    equity_chg_pct |-> 0, sonia_swap_chg_bps |-> 0, fx_gbpusd_chg_pct |-> 0,
    repo_haircut_gilt_chg_pct |-> 0, repo_haircut_corp_chg_pct |-> 0,
    bond_futures_basis_chg_bps |-> 0, vix_level |-> 15,
    gilt_bid_ask_spread_bps |-> 200, corp_bid_ask_spread_bps |-> 500,
    repo_market_availability_pct |-> Den4,
    market_depth_gilt_mm |-> 5000, market_depth_corp_mm |-> 2000,
    endogenous_gilt_selling_mm |-> 0, endogenous_corp_selling_mm |-> 0,
    endogenous_repo_demand_mm |-> 0,
    endogenous_gilt_yield_add_bps |-> 0, endogenous_ig_spread_add_bps |-> 0,
    endogenous_equity_add_pct |-> 0,
    day |-> 0 ]

\* day_values holds the scenario's value of every variable, in bp / % / points
apply_exogenous_scenario(m, day_values) ==
  LET vix == day_values["vix"]
  IN [ m EXCEPT
       !.gilt_10y_yield_chg_bps = day_values["gilt_10y_yield"] * YU,
       !.gilt_30y_yield_chg_bps = day_values["gilt_30y_yield"] * YU,
       !.il_gilt_yield_chg_bps = day_values["il_gilt_yield"] * YU,
       !.ust_10y_yield_chg_bps = day_values["ust_10y_yield"] * YU,
       !.ig_corp_spread_chg_bps = day_values["ig_corp_spread"] * YU,
       !.hy_corp_spread_chg_bps = day_values["hy_corp_spread"] * YU,
       !.equity_chg_pct = day_values["equity"] * YU,
       !.sonia_swap_chg_bps = day_values["sonia_swap"] * YU,
       !.fx_gbpusd_chg_pct = day_values["fx_gbpusd"] * YU,
       !.repo_haircut_gilt_chg_pct = day_values["repo_haircut_gilt"] * YU,
       !.repo_haircut_corp_chg_pct = day_values["repo_haircut_corp"] * YU,
       !.bond_futures_basis_chg_bps = day_values["bond_futures_basis"] * YU,
       !.vix_level = vix,
       !.endogenous_gilt_selling_mm = 0,
       !.endogenous_corp_selling_mm = 0,
       !.endogenous_repo_demand_mm = 0,
       !.endogenous_gilt_yield_add_bps = 0,
       !.endogenous_ig_spread_add_bps = 0,
       !.endogenous_equity_add_pct = 0,
       \* stress_intensity = vix / 15
       !.gilt_bid_ask_spread_bps = MulDiv(200, vix, 15),
       !.corp_bid_ask_spread_bps = MulDiv(500, vix, 15),
       \* max(0.5, 1 - (stress_intensity - 1) * 0.15)
       !.repo_market_availability_pct = Max(Den4 \div 2, Den4 - (vix - 15) * 100) ]

\* selling is in money units (U to the mm), depth in mm, impacts in YU to the
\* bp; U = YU, so selling_mm / depth * 20 bp is selling * 20 / depth
apply_endogenous_feedback(m) ==
  LET gilt_price_impact == MulDiv(m.endogenous_gilt_selling_mm, 20, m.market_depth_gilt_mm)
      corp_price_impact == MulDiv(m.endogenous_corp_selling_mm, 30, m.market_depth_corp_mm)
      m1 == IF m.market_depth_gilt_mm > 0
            THEN [ m EXCEPT
                   !.endogenous_gilt_yield_add_bps = @ + gilt_price_impact,
                   !.gilt_10y_yield_chg_bps = @ + MulDiv(gilt_price_impact, 5, 10),
                   !.gilt_30y_yield_chg_bps = @ + MulDiv(gilt_price_impact, 7, 10) ]
            ELSE m
      m2 == IF m.market_depth_corp_mm > 0
            THEN [ m1 EXCEPT
                   !.endogenous_ig_spread_add_bps = @ + corp_price_impact,
                   !.ig_corp_spread_chg_bps = @ + MulDiv(corp_price_impact, 6, 10),
                   !.hy_corp_spread_chg_bps = @ + MulDiv(corp_price_impact, 12, 10) ]
            ELSE m1
      \* repo_pressure * 0.25 = demand_mm / 50000 * 0.25, as a fraction of Den4
      repo_cut == MulDiv(m.endogenous_repo_demand_mm, 1, 20000)
  IN [ m2 EXCEPT
       !.repo_market_availability_pct = Max(Den4 \div 2, @ - repo_cut),
       !.gilt_bid_ask_spread_bps = @ + MulDiv(m.endogenous_gilt_selling_mm, 1, 10000),
       !.corp_bid_ask_spread_bps = @ + MulDiv(m.endogenous_corp_selling_mm, 1, 5000),
       \* max(1000, 5000 / stress), max(500, 2000 / stress), stress = vix / 15
       !.market_depth_gilt_mm = Max(1000, (5000 * 15) \div m.vix_level),
       !.market_depth_corp_mm = Max(500, (2000 * 15) \div m.vix_level) ]

get_variable(m, var_name) ==
  CASE var_name = "gilt_10y_yield" -> m.gilt_10y_yield_chg_bps
    [] var_name = "gilt_30y_yield" -> m.gilt_30y_yield_chg_bps
    [] var_name = "il_gilt_yield" -> m.il_gilt_yield_chg_bps
    [] var_name = "ust_10y_yield" -> m.ust_10y_yield_chg_bps
    [] var_name = "ig_corp_spread" -> m.ig_corp_spread_chg_bps
    [] var_name = "hy_corp_spread" -> m.hy_corp_spread_chg_bps
    [] var_name = "equity" -> m.equity_chg_pct
    [] var_name = "sonia_swap" -> m.sonia_swap_chg_bps
    [] var_name = "fx_gbpusd" -> m.fx_gbpusd_chg_pct
    [] var_name = "repo_haircut_gilt" -> m.repo_haircut_gilt_chg_pct
    [] var_name = "repo_haircut_corp" -> m.repo_haircut_corp_chg_pct
    [] var_name = "bond_futures_basis" -> m.bond_futures_basis_chg_bps
    [] var_name = "vix" -> m.vix_level * YU
    [] OTHER -> 0

\* every field of the market but endogenous_equity_add_pct
snapshot(m) == [f \in DOMAIN m \ {"endogenous_equity_add_pct"} |-> m[f]]

\* ------------------------------------------------------------ network.py
\* the four typed edge lists of a RelationshipNetwork, as the getters read them
get_connected_hfs(net, bank_name) ==
  LET keep(e) == e[1] = bank_name
      es == SelectSeq(net.bank_hf_edges, keep)
  IN [i \in DOMAIN es |-> es[i][2]]
\* the getter without its filter: every bank that has a hedge-fund edge
get_connected_banks_any(net, hf_name) ==
  [i \in DOMAIN net.bank_hf_edges |-> net.bank_hf_edges[i][1]]
get_connected_banks(net, hf_name) ==
  LET keep(e) == e[2] = hf_name
      es == SelectSeq(net.bank_hf_edges, keep)
  IN [i \in DOMAIN es |-> es[i][1]]
get_connected_ldis(net, bank_name) ==
  LET keep(e) == e[1] = bank_name
      es == SelectSeq(net.bank_ldi_edges, keep)
  IN [i \in DOMAIN es |-> es[i][2]]
get_clearing_banks(net, ldi_name) ==
  LET keep(e) == e[2] = ldi_name
      es == SelectSeq(net.bank_ldi_edges, keep)
  IN [i \in DOMAIN es |-> es[i][1]]
get_oef_redeemers(net, oef_name) ==
  LET keep(e) == e[2] = oef_name
      es == SelectSeq(net.nbfi_oef_edges, keep)
  IN [i \in DOMAIN es |-> es[i][1]]
get_redemption_targets(net, nbfi_name) ==
  LET keep(e) == e[1] = nbfi_name
      es == SelectSeq(net.nbfi_oef_edges, keep)
  IN [i \in DOMAIN es |-> es[i][2]]
\* `[i for b, i in network.bank_insurer_edges if b == self.name]`
connected_insurers(net, bank_name) ==
  LET keep(e) == e[1] = bank_name
      es == SelectSeq(net.bank_insurer_edges, keep)
  IN [i \in DOMAIN es |-> es[i][2]]
\* `[b for b, i in network.bank_insurer_edges if i == self.name]`
insurer_banks(net, insurer_name) ==
  LET keep(e) == e[2] = insurer_name
      es == SelectSeq(net.bank_insurer_edges, keep)
  IN [i \in DOMAIN es |-> es[i][1]]

\* ------------------------------------------------ stage 1: the variants
\* sum over items and sensitivity entries of |amount * sens * delta|
MtmSum(a, day_delta, categories) ==
  LET items == {n \in DOMAIN a.balance_sheet : a.balance_sheet[n].category \in categories}
      ItemMtm(n) ==
        LET item == a.balance_sheet[n]
            sm == item.sensitivity_map
        IN SumF([var \in DOMAIN sm |->
                   MulDiv(item.amount_mm, Abs(sm[var]) * Abs(day_delta[var]), SensDen)],
                DOMAIN sm)
  IN SumF([n \in items |-> ItemMtm(n)], items)

AllCategories == {"liquid_asset", "illiquid_asset", "liability", "equity", "off_bs"}

\* every compute_* below returns the value and the agent as the call leaves it
Ret(v, a) == [ret |-> v, self |-> a]

\* -- bank.py
Bank_compute_initial_buffer(a) ==
  LET bp == BUFFER_PARAMS.bank
      boe_val == AmtOr0(a, "BoE Facility Eligible")
      cet1_val == AmtOr0(a, "CET1 Buffer")
      wf_val == AmtOr0(a, "Wholesale Funding")
      raw == (boe_val * bp.boe_eligible_mult + cet1_val * bp.cet1_mult
              - wf_val * bp.wholesale_funding_runoff_mult) \div 1000
      B0 == Max(raw, MulDiv(a.total_bs_mm, bp.floor_pct_of_bs, 1000))
  IN Ret(B0, [a EXCEPT !.liquidity.B0 = B0])

Bank_compute_mtm_impact(a, market, day_delta) ==
  Ret(MtmSum(a, day_delta, AllCategories), a)

Bank_compute_margin_calls(a, market) ==
  IF ~Has(a, "Derivative Assets") THEN Ret(0, a)
  ELSE LET deriv == Amt(a, "Derivative Assets")
           vix == market.vix_level
           \* deriv * |gilt_10y| * 0.0001 * 0.05
           vm == MulDiv(MulDiv(deriv, Abs(market.gilt_10y_yield_chg_bps), YU), 5, 1000000)
           \* deriv * (stress - 1) * 0.005 if stress > 1
           im_increase == IF vix > 15 THEN MulDiv(deriv, (vix - 15) * 5, 15 * 1000) ELSE 0
       IN Ret(vm + im_increase, a)

Bank_compute_redemptions(a, market, net, agts) ==
  IF ~Has(a, "Wholesale Funding") THEN Ret(0, a)
  ELSE IF market.vix_level > 30      \* stress > 2.0
       THEN Ret(MulDiv(Amt(a, "Wholesale Funding"), (market.vix_level - 30) * 2, 15 * 100), a)
       ELSE Ret(0, a)

\* -- hedge_fund.py
HF_compute_initial_buffer(a) ==
  LET bp == BUFFER_PARAMS.hedge_fund
      cash_val == AmtOr0(a, "Cash & Margin")
      B0 == Max(MulDiv(cash_val, bp.cash_mult, 1000), MulDiv(a.aum_mm, bp.floor_pct_of_aum, 1000))
  IN Ret(B0, [a EXCEPT !.liquidity.B0 = B0])

HF_compute_mtm_impact(a, market, day_delta) ==
  LET total_mtm == MtmSum(a, day_delta, {"liquid_asset", "illiquid_asset"})
  \* total_mtm *= 1 + (gross_leverage - 1) * 0.3
  IN Ret(MulDiv(total_mtm, 100 + (a.gross_leverage - 10) * 3, 100), a)

HF_compute_margin_calls(a, market) ==
  LET vix == market.vix_level
      ps == a.primary_sensitivities
      max_move == MaxF([var \in ps |-> Abs(get_variable(market, var))], ps)
      exposure == MulDiv(a.aum_mm, a.gross_leverage, 10)
      \* aum * leverage * max_move * 0.0001 * 0.022
      vm == MulDiv(MulDiv(exposure, max_move, YU), 22, 10000000)
      im_increase == MulDiv(exposure, Max(0, vix - 15) * 2, 15 * 1000)
      \* aum * repo_dep_mult * repo_haircut_gilt * 0.003 if repo_dep_mult > 0.5
      haircut_impact ==
        IF a.repo_dep_mult > 5
        THEN MulDiv(MulDiv(MulDiv(a.aum_mm, a.repo_dep_mult, 10),
                           market.repo_haircut_gilt_chg_pct, YU), 3, 1000)
        ELSE 0
  IN Ret(vm + im_increase + haircut_impact, a)

HF_compute_redemptions(a, market, net, agts) ==
  \* stress > 2.5 and var_utilisation > 0.85
  IF market.vix_level * 2 > 75 /\ a.var_utilisation > 8500
  THEN Ret(MulDiv(a.aum_mm, 2, 100), a)
  ELSE Ret(0, a)

\* -- ldi_pension.py
LDI_compute_initial_buffer(a) ==
  LET bp == BUFFER_PARAMS.ldi_pension
      cash_val == AmtOr0(a, "Cash & MMF")
      uec_val == AmtOr0(a, "Unencumbered Collateral")
      raw == (cash_val * bp.cash_mult + uec_val * bp.unencumbered_collateral_mult) \div 1000
      B0 == Max(raw, MulDiv(a.aum_mm, bp.floor_pct_of_aum, 1000))
  IN Ret(B0, [a EXCEPT !.liquidity.B0 = B0])

LDI_compute_mtm_impact(a, market, day_delta) ==
  LET total_mtm == MtmSum(a, day_delta, AllCategories)
  \* total_mtm *= ldi_leverage_ratio * 0.5
  IN Ret(MulDiv(total_mtm, a.ldi_leverage_ratio * 5, 100), a)

LDI_compute_margin_calls(a, market) ==
  IF ~Has(a, "Derivatives Exposure") THEN Ret(0, a)
  ELSE LET deriv == Amt(a, "Derivatives Exposure")
           gilt_move == Max(Abs(market.gilt_10y_yield_chg_bps), Abs(market.gilt_30y_yield_chg_bps))
           vm == MulDiv(MulDiv(deriv, gilt_move, YU), 4, 1000000)
           im_increase == MulDiv(deriv, Max(0, market.vix_level - 15) * 3, 15 * 1000)
           cumulative_gilt_move == Abs(market.gilt_10y_yield_chg_bps)
           consumed == Min(Den4, MulDiv(cumulative_gilt_move, Den4, a.yield_buffer_bps * YU))
           excess == cumulative_gilt_move - a.yield_buffer_bps * YU
           additional == MulDiv(MulDiv(deriv, excess, YU), 6, 1000000)
           vm2 == IF consumed >= Den4 THEN vm + additional ELSE vm
       IN Ret(vm2 + im_increase, [a EXCEPT !.yield_buffer_consumed_pct = consumed])

LDI_compute_redemptions(a, market, net, agts) ==
  IF /\ a.yield_buffer_consumed_pct > 7000
     /\ Len(get_redemption_targets(net, a.name)) > 0
     /\ Holds(a, "Cash & MMF")
  THEN Ret(MulDiv(MulDiv(Amt(a, "Cash & MMF"), a.yield_buffer_consumed_pct, Den4), 3, 10), a)
  ELSE Ret(0, a)

\* -- insurer.py
Insurer_compute_initial_buffer(a) ==
  LET bp == BUFFER_PARAMS.insurer
      cash_val == AmtOr0(a, "Cash & Liquid")
      repo_val == AmtOr0(a, "Committed Repo Lines")
      rcf_val == AmtOr0(a, "RCF Available")
      raw == (cash_val * bp.cash_mult + repo_val * bp.committed_repo_mult
              + rcf_val * bp.rcf_mult) \div 1000
      B0 == Max(raw, MulDiv(a.total_mm, bp.floor_pct_of_assets, 1000))
  IN Ret(B0, [a EXCEPT !.liquidity.B0 = B0])

Insurer_compute_mtm_impact(a, market, day_delta) ==
  LET total_mtm == MtmSum(a, day_delta, AllCategories)
      hedge_offset == MulDiv(MulDiv(total_mtm, a.hedge_ratio, Den4), 3, 10)
  IN IF Has(a, "Derivative Hedges")
     THEN Ret(Max(0, total_mtm - hedge_offset), a)
     ELSE Ret(total_mtm, a)

Insurer_compute_margin_calls(a, market) ==
  IF ~Has(a, "Derivative Hedges") THEN Ret(0, a)
  ELSE LET deriv == Amt(a, "Derivative Hedges")
           vm == MulDiv(MulDiv(deriv, Abs(market.gilt_10y_yield_chg_bps), YU), 8, 10000000)
           im == MulDiv(deriv, Max(0, market.vix_level - 15) * 8, 15 * 10000)
           \* deriv * dirty_csa_pct * repo_haircut_corp * 0.01 * 0.05
           haircut_impact ==
             MulDiv(MulDiv(MulDiv(deriv, a.dirty_csa_pct, Den4),
                           market.repo_haircut_corp_chg_pct, YU), 5, 10000)
           vm2 == IF a.dirty_csa_pct > 0 THEN vm + haircut_impact ELSE vm
       IN Ret(vm2 + im, a)

Insurer_compute_redemptions(a, market, net, agts) ==
  IF market.vix_level * 2 > 75      \* stress > 2.5
  THEN Ret(MulDiv(a.total_mm, 5, 1000), a)
  ELSE Ret(0, a)

\* -- oef_mmf.py
OEF_compute_initial_buffer(a) ==
  LET bp == BUFFER_PARAMS.oef_mmf
      cash_val == AmtOr0(a, "Cash Buffer")
      B0 == Max(MulDiv(cash_val, bp.cash_mult, 1000), MulDiv(a.aum_mm, bp.floor_pct_of_aum, 1000))
  IN Ret(B0, [a EXCEPT !.liquidity.B0 = B0])

OEF_compute_mtm_impact(a, market, day_delta) ==
  Ret(MtmSum(a, day_delta, AllCategories), a)

OEF_compute_margin_calls(a, market) == Ret(0, a)

\* agts maps the names in the agent list to the agents as they are now
OEF_compute_redemptions(a, market, net, agts) ==
  LET redeemers == get_oef_redeemers(net, a.name)
      known == {i \in DOMAIN redeemers : redeemers[i] \in DOMAIN agts}
      Redemption(i) ==
        LET nbfi == agts[redeemers[i]]
            B0 == nbfi.liquidity.B0
            E1 == nbfi.liquidity.E1
            \* stress_ratio = E1 / B0 if B0 > 0 else 0; only > 0.3 redeems
            stressed == B0 > 0 /\ E1 * 10 > 3 * B0
            \* size_factor * 0.001 * stress_ratio
            base_redemption == MulDiv(MulDiv(nbfi.size_factor, E1, B0), 1, 1000)
        IN IF ~stressed THEN 0
           ELSE CASE nbfi.agent_type = "ldi_pension" ->
                       MulDiv(base_redemption, a.pension_investor_pct * 2, Den4)
                  [] nbfi.agent_type = "insurer" ->
                       MulDiv(MulDiv(base_redemption, a.insurer_investor_pct, Den4), 15, 10)
                  [] nbfi.agent_type = "hedge_fund" -> MulDiv(base_redemption, 5, 10)
                  [] OTHER -> base_redemption
      total_redemptions == SumF([i \in known |-> Redemption(i)], known)
  IN IF Len(redeemers) = 0 THEN Ret(0, a)
     ELSE Ret(total_redemptions,
              [a EXCEPT !.cumulative_redemption_inflows_mm = @ + total_redemptions])

\* -- the polymorphic calls
compute_initial_buffer(a) ==
  CASE a.agent_type = "bank" -> Bank_compute_initial_buffer(a)
    [] a.agent_type = "hedge_fund" -> HF_compute_initial_buffer(a)
    [] a.agent_type = "ldi_pension" -> LDI_compute_initial_buffer(a)
    [] a.agent_type = "insurer" -> Insurer_compute_initial_buffer(a)
    [] a.agent_type = "oef_mmf" -> OEF_compute_initial_buffer(a)

compute_mtm_impact(a, market, day_delta) ==
  CASE a.agent_type = "bank" -> Bank_compute_mtm_impact(a, market, day_delta)
    [] a.agent_type = "hedge_fund" -> HF_compute_mtm_impact(a, market, day_delta)
    [] a.agent_type = "ldi_pension" -> LDI_compute_mtm_impact(a, market, day_delta)
    [] a.agent_type = "insurer" -> Insurer_compute_mtm_impact(a, market, day_delta)
    [] a.agent_type = "oef_mmf" -> OEF_compute_mtm_impact(a, market, day_delta)

compute_margin_calls(a, market) ==
  CASE a.agent_type = "bank" -> Bank_compute_margin_calls(a, market)
    [] a.agent_type = "hedge_fund" -> HF_compute_margin_calls(a, market)
    [] a.agent_type = "ldi_pension" -> LDI_compute_margin_calls(a, market)
    [] a.agent_type = "insurer" -> Insurer_compute_margin_calls(a, market)
    [] a.agent_type = "oef_mmf" -> OEF_compute_margin_calls(a, market)

compute_redemptions(a, market, net, agts) ==
  CASE a.agent_type = "bank" -> Bank_compute_redemptions(a, market, net, agts)
    [] a.agent_type = "hedge_fund" -> HF_compute_redemptions(a, market, net, agts)
    [] a.agent_type = "ldi_pension" -> LDI_compute_redemptions(a, market, net, agts)
    [] a.agent_type = "insurer" -> Insurer_compute_redemptions(a, market, net, agts)
    [] a.agent_type = "oef_mmf" -> OEF_compute_redemptions(a, market, net, agts)

\* ---------------------------------------------- agents/base.py: stage 1
reset_daily(a) ==
  [a EXCEPT !.liquidity.E1 = 0, !.liquidity.E2 = 0,
            !.has_reacted = FALSE, !.reactions = EmptyMap]

\* compute_stage1 adding the loss to the buffer
Stage1_B1_added(B0, E1) == B0 + E1

\* B1 as compute_stage1 derives it
Stage1_B1(B0, E1) == B0 - E1

compute_stage1(a, market, day_delta, net, agts) ==
  LET r1 == compute_mtm_impact(a, market, day_delta)
      r2 == compute_margin_calls(r1.self, market)
      r3 == compute_redemptions(r2.self, market, net, agts)
      mtm == r1.ret
      margin == r2.ret
      redemptions == r3.ret
      E1 == mtm + margin + redemptions
  IN [ r3.self EXCEPT
       !.liquidity.E1 = E1,
       !.liquidity.B1 = Stage1_B1(r3.self.liquidity.B0, E1),
       !.cumulative_margin_calls_mm = @ + margin,
       !.cumulative_redemptions_mm = @ + redemptions ]

\* E1 / B0 > theta, for B0 > 0
RatioAbove(E1, B0, theta) == E1 * Den4 > theta * B0

\* should_react without its first two lines: the quotient alone, whose sign
\* follows B0 (no quotient for B0 = 0)
should_react_unguarded(a) ==
  CASE a.liquidity.B0 > 0 -> RatioAbove(a.liquidity.E1, a.liquidity.B0, a.theta)
    [] a.liquidity.B0 < 0 -> a.liquidity.E1 * Den4 < a.theta * a.liquidity.B0
    [] OTHER -> FALSE

should_react(a) ==
  IF a.liquidity.B0 <= 0 THEN FALSE
  ELSE RatioAbove(a.liquidity.E1, a.liquidity.B0, a.theta)

\* ------------------------------------------ action names and substrings
AllActions ==
  { "boe_facility", "reduce_repo_lending", "sell_gilt", "sell_corp_bonds",
    "seek_repo", "sell_gilt_basis_unwind", "sell_equity", "redeem_mmf",
    "post_collateral", "recapitalisation", "sell_gilt_il",
    "draw_repo_line", "draw_rcf", "use_cash_buffer", "swing_pricing" }
\* action.startswith("sell_"), and also "sell" in action
StartsWithSell == { "sell_gilt", "sell_corp_bonds", "sell_gilt_basis_unwind",
                    "sell_equity", "sell_gilt_il" }
ContainsSell == StartsWithSell
ContainsRepo == { "seek_repo", "reduce_repo_lending", "draw_repo_line" }
ContainsBoe == { "boe_facility" }
ContainsRedeem == { "redeem_mmf" }
ContainsGilt == { "sell_gilt", "sell_gilt_basis_unwind", "sell_gilt_il" }
ContainsCorp == { "sell_corp_bonds" }
ContainsSellGilt == { "sell_gilt", "sell_gilt_basis_unwind", "sell_gilt_il" }
ContainsSellCorp == { "sell_corp_bonds" }

\* -------------------------------------------- bank.py: repo assessment
\* `network is None`
NoNetwork == [none |-> TRUE]

\* the names with an edge to the bank
AllConnected(net, bank_name) ==
  Range(get_connected_hfs(net, bank_name))
    \cup Range(get_connected_ldis(net, bank_name))
    \cup Range(connected_insurers(net, bank_name))

\* threshold * max(B0, 1): the E1 at which stress_ratio / threshold is 1
RefusalE1(bank) ==
  MulDiv(Max(bank.liquidity.B0, U),
         FEEDBACK_PARAMS.bank_repo_refusal_stress_threshold, 1000) \div 1000

\* assess_repo_request with stress_scaling left out of the last line
assess_repo_request_unscaled(bank, requesting_agent_name, amount, net) ==
  IF net = NoNetwork THEN 0
  ELSE IF requesting_agent_name \notin AllConnected(net, bank.name) THEN 0
  ELSE Min(amount,
           MulDiv(MulDiv(bank.repo_capacity_mm, bank.willingness_to_extend_new_pct, Den4),
                  bank.risk_appetite, Den4))

\* amount the bank is willing to provide:
\* min(amount, available * risk_appetite * max(0, 1 - stress_ratio / threshold))
assess_repo_request(bank, requesting_agent_name, amount, net) ==
  IF net = NoNetwork THEN 0
  ELSE IF requesting_agent_name \notin AllConnected(net, bank.name) THEN 0
  ELSE Min(amount,
           MulDiv(MulDiv(MulDiv(bank.repo_capacity_mm,
                                bank.willingness_to_extend_new_pct, Den4),
                         bank.risk_appetite, Den4),
                  Max(0, RefusalE1(bank) - bank.liquidity.E1), RefusalE1(bank)))

\* the loop over the connected banks that HF, LDI and insurer share
RepoObtained(a, bank_names, repo_ask, market, net, agts) ==
  LET ask_per_bank == repo_ask \div Max(Len(bank_names), 1)
      From(i) ==
        LET bank_name == bank_names[i]
        IN IF bank_name \in DOMAIN agts /\ agts[bank_name].agent_type = "bank"
           THEN assess_repo_request(agts[bank_name], a.name, ask_per_bank, net)
           ELSE MulDiv(ask_per_bank, market.repo_market_availability_pct, Den4)
  IN SumF([i \in DOMAIN bank_names |-> From(i)], DOMAIN bank_names)

\* ------------------------------------------------- reaction waterfalls
\* a waterfall carries the reactions recorded so far, the shortfall left and
\* the agent as the steps have left it
Waterfall(a, shortfall) == [reactions |-> EmptyMap, shortfall |-> shortfall, self |-> a]

\* reactions[action] = amount; shortfall -= amount
Take(w, action, amount) ==
  [w EXCEPT !.reactions = Put(@, action, amount), !.shortfall = @ - amount]

\* a step that does not look at `taken`
Step_untested(w, guarded, taken, action, alloc, cap) ==
  IF guarded => w.shortfall > 0
  THEN [w EXCEPT !.reactions = Put(@, action, Min(MulDiv(w.shortfall, alloc, 1000), cap)),
                 !.shortfall = @ - Min(MulDiv(w.shortfall, alloc, 1000), cap)]
  ELSE w

\* one step: when taken, records min(shortfall * alloc / 1000, cap) under
\* `action`; `guarded` says whether the code tests shortfall > 0 first
Step(w, guarded, taken, action, alloc, cap) ==
  IF taken /\ (guarded => w.shortfall > 0)
  THEN Take(w, action, Min(MulDiv(w.shortfall, alloc, 1000), cap))
  ELSE w

\* a draw on `item`, up to `cap_tenths` tenths of it
Draw(w, guarded, item, action, alloc, cap_tenths) ==
  Step(w, guarded, Holds(w.self, item), action, alloc,
       MulDiv(AmtOr0(w.self, item), cap_tenths, 10))

\* a sale capped by the shortfall share alone
Sale_uncapped(w, guarded, item, action, pair) ==
  Step(w, guarded, Holds(w.self, item), action, pair[1], MulDiv(w.shortfall, pair[1], 1000))

\* a sale of `item` under the (shortfall_alloc_pct, holding_cap_pct) pair
Sale(w, guarded, item, action, pair) ==
  Step(w, guarded, Holds(w.self, item), action, pair[1],
       MulDiv(AmtOr0(w.self, item), pair[2], 1000))

\* the repo step LDI funds and insurers share
SeekRepo(w, bank_names, repo_ask_pct, market, net, agts) ==
  LET repo_ask == MulDiv(w.shortfall, repo_ask_pct, 1000)
      repo_obtained == RepoObtained(w.self, bank_names, repo_ask, market, net, agts)
  IN IF w.shortfall > 0 /\ repo_obtained > 0
     THEN Take(w, "seek_repo", repo_obtained)
     ELSE w

\* the redemption step LDI funds and insurers share
Redeem(w, net, alloc, cap) ==
  Step(w, TRUE, Len(get_redemption_targets(net, w.self.name)) > 0, "redeem_mmf", alloc, cap)

Bank_reduce_repo_lending(w) ==
  \* repo.amount_mm * (1 - risk_appetite) * 0.3
  Step(w, TRUE, Holds(w.self, "Repo Lending"), "reduce_repo_lending", 300,
       MulDiv(MulDiv(AmtOr0(w.self, "Repo Lending"), Den4 - w.self.risk_appetite, Den4), 3, 10))

\* step k of the bank's waterfall
Bank_step(k, w) ==
  LET caps == REACTION_PARAMS.bank
  IN CASE k = 1 -> Draw(w, FALSE, "BoE Facility Eligible", "boe_facility", 300, 5)
       [] k = 2 -> Bank_reduce_repo_lending(w)
       [] k = 3 -> Sale(w, TRUE, "Gilt Holdings", "sell_gilt", caps.sell_gilt)
       [] k = 4 -> Sale(w, TRUE, "Corporate Bond Holdings", "sell_corp_bonds", caps.sell_corp)

\* the hedge fund's ask: shortfall * max(repo_dep_mult, 0.6) * repo_ask_pct
HF_repo_ask(w) ==
  MulDiv(MulDiv(w.shortfall, Max(w.self.repo_dep_mult, 6), 10),
         REACTION_PARAMS.hedge_fund.repo_ask_pct, 1000)

\* the repo step with the refusal flag raised whenever nothing was obtained
HF_seek_repo_flag_unasked(w, market, net, agts) ==
  LET a == w.self
      repo_ask == HF_repo_ask(w)
      repo_obtained == RepoObtained(a, get_connected_banks(net, a.name), repo_ask, market, net, agts)
      flagged == [w EXCEPT !.self.repo_refused_by_all = @ \/ repo_obtained <= 0]
  IN IF a.repo_dep_mult <= 0 THEN w
     ELSE IF repo_obtained > 0 THEN Take(flagged, "seek_repo", repo_obtained)
     ELSE flagged

\* step 1 of the hedge fund: repo from the connected banks
HF_seek_repo(w, market, net, agts) ==
  LET a == w.self
      connected_banks == get_connected_banks(net, a.name)
      repo_ask == HF_repo_ask(w)
      repo_obtained == RepoObtained(a, connected_banks, repo_ask, market, net, agts)
      flagged == [w EXCEPT
                  !.self.has_ever_sought_repo = @ \/ repo_ask > 0,
                  !.self.repo_refused_by_all = @ \/ (repo_obtained <= 0 /\ repo_ask > 0)]
  IN IF a.repo_dep_mult <= 0 THEN w
     ELSE IF repo_obtained > 0 THEN Take(flagged, "seek_repo", repo_obtained)
     ELSE flagged

\* step 2 of the hedge fund: the sales of its strategy.  In the
\* multi_strategy loop a `break` on shortfall <= 0 skips the later items,
\* whose own test would fail too, the shortfall never growing
HF_sales(strategy) ==
  LET caps == REACTION_PARAMS.hedge_fund
  IN CASE strategy = "relative_value" ->
            << <<"Basis Trade Positions", "sell_gilt_basis_unwind", caps.sell_basis_unwind>>,
               <<"Gilt Positions (net)", "sell_gilt", caps.sell_gilt>> >>
       [] strategy = "macro_rates" ->
            << <<"Gilt Positions (net)", "sell_gilt", caps.sell_gilt>> >>
       [] strategy = "credit_long_short" ->
            << <<"Corp Bond Positions", "sell_corp_bonds", caps.sell_corp>> >>
       [] strategy = "long_short_equity" ->
            << <<"Equity Positions", "sell_equity", caps.sell_equity>> >>
       [] OTHER ->
            << <<"Gilt Positions (net)", "sell_gilt", caps.multi_strategy>>,
               <<"Corp Bond Positions", "sell_corp_bonds", caps.multi_strategy>>,
               <<"Equity Positions", "sell_equity", caps.multi_strategy>> >>

\* the i-th sale of the strategy; the first one runs under the outer
\* `if shortfall > 0`, the later ones under their own test of it
HF_sell_item(w, i) ==
  LET sales == HF_sales(w.self.strategy)
  IN IF i > Len(sales) THEN w
     ELSE Sale(w, TRUE, sales[i][1], sales[i][2], sales[i][3])

\* step 3 of the hedge fund: redeem_per_oef * len(oef_targets)
HF_redeem(w, net) ==
  LET oef_targets == get_redemption_targets(net, w.self.name)
      redeem_per_oef == Min(MulDiv(w.shortfall, 2, 10), MulDiv(w.self.aum_mm, 5, 100))
                        \div Max(Len(oef_targets), 1)
  IN IF w.shortfall > 0 /\ Len(oef_targets) > 0
     THEN [w EXCEPT !.reactions = Put(@, "redeem_mmf", redeem_per_oef * Len(oef_targets))]
     ELSE w

\* step k of the hedge fund's waterfall, the sales counted one by one
HF_step(k, w, market, net, agts) ==
  CASE k = 1 -> HF_seek_repo(w, market, net, agts)
    [] k \in 2..4 -> HF_sell_item(w, k - 1)
    [] k = 5 -> HF_redeem(w, net)

\* the recapitalisation without its daily limit
LDI_recapitalise_unlimited(w) ==
  LET recap_use == MulDiv(w.shortfall, 3, 10)
  IN IF w.shortfall > 0 /\ w.self.recap_available_mm > w.self.recap_used_mm
     THEN [Take(w, "recapitalisation", recap_use) EXCEPT !.self.recap_used_mm = @ + recap_use]
     ELSE w

\* step 2 of the LDI fund: recapitalisation from the pension scheme
LDI_recapitalise(w) ==
  LET a == w.self
      daily_recap == (a.recap_available_mm - a.recap_used_mm) \div Max(a.recap_speed_days, 1)
      recap_use == Min(MulDiv(w.shortfall, 3, 10), daily_recap)
  IN IF w.shortfall > 0 /\ a.recap_available_mm > a.recap_used_mm
     THEN [Take(w, "recapitalisation", recap_use) EXCEPT !.self.recap_used_mm = @ + recap_use]
     ELSE w

\* step k of the LDI fund's waterfall
LDI_step(k, w, market, net, agts) ==
  LET caps == REACTION_PARAMS.ldi_pension
  IN CASE k = 1 -> Draw(w, FALSE, "Unencumbered Collateral", "post_collateral", 400, 5)
       [] k = 2 -> LDI_recapitalise(w)
       [] k = 3 -> SeekRepo(w, get_clearing_banks(net, w.self.name), caps.repo_ask_pct,
                            market, net, agts)
       [] k = 4 -> Sale(w, TRUE, "Gilt Holdings", "sell_gilt", caps.sell_gilt)
       [] k = 5 -> Sale(w, TRUE, "IL Gilt Holdings", "sell_gilt_il", caps.sell_il_gilt)
       [] k = 6 -> Sale(w, TRUE, "Corporate Bond Holdings", "sell_corp_bonds", caps.sell_corp)
       [] k = 7 -> Redeem(w, net, 200, MulDiv(w.self.aum_mm, 5, 100))

\* step k of the insurer's waterfall
Insurer_step(k, w, market, net, agts) ==
  LET caps == REACTION_PARAMS.insurer
  IN CASE k = 1 -> Draw(w, FALSE, "Committed Repo Lines", "draw_repo_line", 300, 5)
       [] k = 2 -> Draw(w, FALSE, "RCF Available", "draw_rcf", 200, 5)
       [] k = 3 -> SeekRepo(w, insurer_banks(net, w.self.name), caps.repo_ask_pct,
                            market, net, agts)
       [] k = 4 -> Sale(w, TRUE, "Gilt Holdings", "sell_gilt", caps.sell_gilt)
       [] k = 5 -> Sale(w, TRUE, "Corporate Bond Holdings", "sell_corp_bonds", caps.sell_corp)
       [] k = 6 -> Sale(w, TRUE, "Equity Portfolio", "sell_equity", caps.sell_equity)
       [] k = 7 -> Redeem(w, net, 150, MulDiv(w.self.total_mm, 3, 100))

\* step 4 of the pooled fund: swing pricing / gates once
\* cumulative_redemption_inflows_mm / aum_mm > 0.15
OEF_swing_pricing(w) ==
  LET a == w.self
  IN IF /\ w.shortfall > 0 /\ a.aum_mm > 0
        /\ a.cumulative_redemption_inflows_mm * 100 > 15 * a.aum_mm
     THEN [w EXCEPT !.reactions = Put(@, "swing_pricing", MulDiv(w.shortfall, 2, 10))]
     ELSE w

\* step k of the pooled fund's waterfall
OEF_step(k, w) ==
  LET caps == REACTION_PARAMS.oef_mmf
  IN CASE k = 1 -> Draw(w, FALSE, "Cash Buffer", "use_cash_buffer", 500, 7)
       [] k = 2 -> Sale(w, TRUE, "Gilt Holdings", "sell_gilt", caps.sell_gilt)
       [] k = 3 -> Sale(w, TRUE, "Corporate Bond Holdings", "sell_corp_bonds", caps.sell_corp)
       [] k = 4 -> OEF_swing_pricing(w)

\* the number of steps of each variant's waterfall
NSteps(a) ==
  CASE a.agent_type = "bank" -> 4
    [] a.agent_type = "hedge_fund" -> 5
    [] a.agent_type \in {"ldi_pension", "insurer"} -> 7
    [] a.agent_type = "oef_mmf" -> 4

\* shortfall = max(0, -B1) + E1 * reserve, the reserve 0 for a bank, 0.2
\* for a hedge fund and 0.1 for the others
Entry(a) ==
  Waterfall(a, Max(0, -a.liquidity.B1)
               + MulDiv(a.liquidity.E1,
                        CASE a.agent_type = "bank" -> 0
                          [] a.agent_type = "hedge_fund" -> 2
                          [] OTHER -> 1, 10))

WaterfallStep(k, w, market, net, agts) ==
  CASE w.self.agent_type = "bank" -> Bank_step(k, w)
    [] w.self.agent_type = "hedge_fund" -> HF_step(k, w, market, net, agts)
    [] w.self.agent_type = "ldi_pension" -> LDI_step(k, w, market, net, agts)
    [] w.self.agent_type = "insurer" -> Insurer_step(k, w, market, net, agts)
    [] w.self.agent_type = "oef_mmf" -> OEF_step(k, w)

RECURSIVE RunSteps(_, _, _, _, _)
\* the waterfall after its first k steps
RunSteps(k, w, market, net, agts) ==
  IF k = 0 THEN w
  ELSE WaterfallStep(k, RunSteps(k - 1, w, market, net, agts), market, net, agts)

Bank_compute_reactions(a, market, net, agts) == RunSteps(4, Entry(a), market, net, agts)

HF_compute_reactions(a, market, net, agts) == RunSteps(5, Entry(a), market, net, agts)

LDI_compute_reactions(a, market, net, agts) == RunSteps(7, Entry(a), market, net, agts)

Insurer_compute_reactions(a, market, net, agts) == RunSteps(7, Entry(a), market, net, agts)

OEF_compute_reactions(a, market, net, agts) == RunSteps(4, Entry(a), market, net, agts)

\* the reactions and the agent as compute_reactions leaves it
compute_reactions(a, market, net, agts) ==
  CASE a.agent_type = "bank" -> Bank_compute_reactions(a, market, net, agts)
    [] a.agent_type = "hedge_fund" -> HF_compute_reactions(a, market, net, agts)
    [] a.agent_type = "ldi_pension" -> LDI_compute_reactions(a, market, net, agts)
    [] a.agent_type = "insurer" -> Insurer_compute_reactions(a, market, net, agts)
    [] a.agent_type = "oef_mmf" -> OEF_compute_reactions(a, market, net, agts)

\* ------------------------------------------ agents/base.py: stages 2, 3
\* the realisation rate compute_stage2 credits an action at
Realisation(action, market) ==
  IF action \in StartsWithSell
  THEN Max(Den4 \div 2, Den4 - market.gilt_bid_ask_spread_bps)
  ELSE IF action \in ContainsRepo THEN market.repo_market_availability_pct
  ELSE IF action \in ContainsBoe THEN 9500
  ELSE IF action \in ContainsRedeem THEN 9000
  ELSE 8000

Mitigation(reactions, market) ==
  SumF([action \in DOMAIN reactions |->
          MulDiv(reactions[action], Realisation(action, market), Den4)],
       DOMAIN reactions)

\* lines 100-121: the agent with the reactions r recorded and credited
Stage2_B2(B1, mitigation) == B1 + mitigation

RecordReactions(r, market) ==
  LET rs == r.reactions
      sold == DOMAIN rs \cap ContainsSell
  IN [ r.self EXCEPT
       !.has_reacted = TRUE,
       !.reactions = rs,
       !.liquidity.B2 = Stage2_B2(r.self.liquidity.B1, Mitigation(rs, market)),
       !.cumulative_asset_sales_mm = @ + SumF(rs, sold),
       !.cumulative_gilt_sales_mm = @ + SumF(rs, sold \cap ContainsGilt),
       !.cumulative_repo_demand_mm = @ + SumF(rs, DOMAIN rs \cap ContainsRepo) ]

compute_stage2(a, market, net, agts) ==
  IF ~should_react(a)
  THEN [a EXCEPT !.has_reacted = FALSE, !.reactions = EmptyMap,
                 !.liquidity.B2 = a.liquidity.B1]
  ELSE RecordReactions(compute_reactions(a, market, net, agts), market)

\* apply_stage3 adding the loss to B2
Stage3_B3_added(B2, E2) == B2 + E2

Stage3_B3(B2, E2) == B2 - E2

\* apply_stage3 setting E2 instead of adding to it
apply_stage3_overwriting(a, e2) ==
  [a EXCEPT !.liquidity.E2 = e2, !.liquidity.B3 = a.liquidity.B2 - e2]

\* apply_stage3 without its second line
apply_stage3_E2_only(a, e2) == [a EXCEPT !.liquidity.E2 = @ + e2]

apply_stage3(a, e2) ==
  LET E2 == a.liquidity.E2 + e2
  IN [a EXCEPT !.liquidity.E2 = E2, !.liquidity.B3 = Stage3_B3(a.liquidity.B2, E2)]

register_actions_to_market(a, market) ==
  LET rs == a.reactions
      gilt == (DOMAIN rs \cap ContainsGilt) \cap ContainsSell
      corp == ((DOMAIN rs \cap ContainsCorp) \cap ContainsSell) \ gilt
      repo == (DOMAIN rs \cap ContainsRepo) \ (gilt \cup corp)
  IN [ market EXCEPT
       !.endogenous_gilt_selling_mm = @ + SumF(rs, gilt),
       !.endogenous_corp_selling_mm = @ + SumF(rs, corp),
       !.endogenous_repo_demand_mm = @ + SumF(rs, repo) ]

daily_snapshot(a, day) ==
  [ agent |-> a.name, agent_type |-> a.agent_type, size_factor |-> a.size_factor,
    B0 |-> a.liquidity.B0, B1 |-> a.liquidity.B1, B2 |-> a.liquidity.B2,
    B3 |-> a.liquidity.B3, E1 |-> a.liquidity.E1, E2 |-> a.liquidity.E2,
    has_reacted |-> a.has_reacted,
    cum_margin |-> a.cumulative_margin_calls_mm,
    cum_sales |-> a.cumulative_asset_sales_mm,
    cum_repo |-> a.cumulative_repo_demand_mm,
    day |-> day ]

\* ---------------------------------------- bank.py: market-making capacity
\* the bank taking in all it is offered
GiltAbsorbed_whole(a, amount_mm) == amount_mm

\* what absorb_selling_pressure returns: min(amount, remaining * risk_appetite)
GiltAbsorbed(a, amount_mm) ==
  Min(amount_mm, MulDiv(MulDiv(a.gilt_mm_appetite_mm, Den4 - a.mm_appetite_consumed_pct, Den4),
                        a.risk_appetite, Den4))

absorb_selling_pressure(a, amount_mm) ==
  IF a.gilt_mm_appetite_mm > 0
  THEN [a EXCEPT !.mm_appetite_consumed_pct =
          Min(Den4, @ + MulDiv(GiltAbsorbed(a, amount_mm), Den4, a.gilt_mm_appetite_mm))]
  ELSE a

\* what absorb_corp_selling_pressure returns
CorpAbsorbed(a, amount_mm) ==
  Min(amount_mm, MulDiv(MulDiv(a.corp_mm_appetite_mm, Den4 - a.corp_appetite_consumed_pct, Den4),
                        a.risk_appetite, Den4))

absorb_corp_selling_pressure(a, amount_mm) ==
  IF a.corp_mm_appetite_mm > 0
  THEN [a EXCEPT !.corp_appetite_consumed_pct =
          Min(Den4, @ + MulDiv(CorpAbsorbed(a, amount_mm), Den4, a.corp_mm_appetite_mm))]
  ELSE a

tighten_repo_for_counterparties(a) ==
  LET tightening == MulDiv(Den4 - a.risk_appetite, 3, 10)
  IN [a EXCEPT
      !.willingness_to_extend_new_pct = Max(0, @ - tightening),
      !.willingness_to_roll_pct = Max(Den4 \div 2, @ - MulDiv(tightening, 5, 10))]

\* the update tightening whether or not the bank has reacted
post_registration_update_always(a, gilt_to_absorb, corp_to_absorb) ==
  tighten_repo_for_counterparties(
    absorb_corp_selling_pressure(absorb_selling_pressure(a, gilt_to_absorb), corp_to_absorb))

\* the daily capacity histories are reporting only and are not carried
post_registration_update(a, gilt_to_absorb, corp_to_absorb) ==
  LET a1 == absorb_selling_pressure(a, gilt_to_absorb)
      a2 == absorb_corp_selling_pressure(a1, corp_to_absorb)
  IN IF a2.has_reacted THEN tighten_repo_for_counterparties(a2) ELSE a2

\* remaining capacity, as run_simulation computes it for the pro-rata shares
GiltRemaining(b) == MulDiv(b.gilt_mm_appetite_mm, Den4 - b.mm_appetite_consumed_pct, Den4)
CorpRemaining(b) == MulDiv(b.corp_mm_appetite_mm, Den4 - b.corp_appetite_consumed_pct, Den4)

\* ------------------------------------------------- engine/feedback.py
\* x * s with s = max(1.0, vix_level / 15.0)
TimesS(x, market) == IF market.vix_level > 15 THEN MulDiv(x, market.vix_level, 15) ELSE x

\* np.sqrt(s) in hundredths
SqrtS(market) == Isqrt(IF market.vix_level > 15 THEN (market.vix_level * 10000) \div 15 ELSE 10000)

\* the e2 one iteration computes for `target` when somebody has reacted
Stage3_e2(target, names, agts, market, net) ==
  LET nameset == Range(names)
      num_reacting == Cardinality({n \in nameset : agts[n].has_reacted})
      size(a) == SumMap(a.reactions)
      \* layer 1: bilateral
      connected_banks == get_connected_banks(net, target.name)
      FromBank(i) ==
        LET bn == connected_banks[i]
        IN IF bn \in nameset /\ agts[bn].has_reacted /\ Has(target, "Repo Borrowing")
           THEN MulDiv(TimesS(MulDiv(Amt(target, "Repo Borrowing"), size(agts[bn]),
                                     Max(agts[bn].liquidity.B0, U)), market), 5, 100)
           ELSE 0
      connected_hfs == get_connected_hfs(net, target.name)
      FromHF(i) ==
        LET hn == connected_hfs[i]
            hf == agts[hn]
            hf_repo == AmtOr0(hf, "Repo Borrowing")
            n_banks_for_hf == Max(Len(get_connected_banks(net, hn)), 1)
            bilateral_exposure == hf_repo \div n_banks_for_hf
        IN IF hn \in nameset /\ hf.has_reacted
           THEN MulDiv(TimesS(MulDiv(bilateral_exposure, hf.liquidity.E1,
                                     Max(hf.liquidity.B0, U)), market),
                       FEEDBACK_PARAMS.bank_counterparty_loss_coeff, 1000)
           ELSE 0
      redeemers == get_oef_redeemers(net, target.name)
      FromRedeemer(i) ==
        LET rn == redeemers[i]
        IN IF rn \in nameset /\ agts[rn].has_reacted
           THEN MulDiv(size(agts[rn]), 1, 10)
           ELSE 0
      bilateral ==
        CASE target.agent_type = "hedge_fund" ->
               SumF([i \in DOMAIN connected_banks |-> FromBank(i)], DOMAIN connected_banks)
          [] target.agent_type = "bank" ->
               SumF([i \in DOMAIN connected_hfs |-> FromHF(i)], DOMAIN connected_hfs)
          [] target.agent_type = "oef_mmf" ->
               SumF([i \in DOMAIN redeemers |-> FromRedeemer(i)], DOMAIN redeemers)
          [] OTHER -> 0
      \* layer 2: market broadcast, amount * |sens| * 0.0001 * s * 0.05 per entry
      liquid == {n \in DOMAIN target.balance_sheet :
                   target.balance_sheet[n].category = "liquid_asset"}
      Broadcast(n) ==
        LET item == target.balance_sheet[n]
            sm == item.sensitivity_map
        IN SumF([var \in DOMAIN sm |->
                   MulDiv(TimesS(MulDiv(MulDiv(item.amount_mm, Abs(sm[var]), SensDen),
                                        5, 1000000), market),
                          num_reacting, Len(names))],
                DOMAIN sm)
      broadcast == SumF([n \in liquid |-> Broadcast(n)], liquid)
      \* reputation: own reactions * (sqrt(s) - 1) * 0.15
      rep_impact == IF target.has_reacted
                    THEN MulDiv(size(target), (SqrtS(market) - 100) * 15, 10000)
                    ELSE 0
      \* crowding: (same_type_reacting / same_type_total) ** 2 * s * 0.03
      same_type == {n \in nameset : agts[n].agent_type = target.agent_type}
      same_type_reacting == Cardinality({n \in same_type : agts[n].has_reacted})
      same_type_total == Cardinality(same_type)
      crowding == IF same_type_total > 0 /\ target.has_reacted
                  THEN MulDiv(TimesS(MulDiv(size(target),
                                            same_type_reacting * same_type_reacting,
                                            same_type_total * same_type_total), market),
                              3, 100)
                  ELSE 0
  IN bilateral + broadcast + rep_impact + crowding

\* apply_stage3 only writes E2 and B3 of the target, which no e2 reads, so
\* the loop over targets is one simultaneous update
compute_stage3_feedback(names, agts, market, net) ==
  LET num_reacting == Cardinality({n \in Range(names) : agts[n].has_reacted})
  IN [n \in DOMAIN agts |->
        IF n \notin Range(names) THEN agts[n]
        ELSE IF num_reacting = 0 THEN apply_stage3(agts[n], 0)
        ELSE apply_stage3(agts[n], Stage3_e2(agts[n], names, agts, market, net))]

\* ------------------------------------------------ engine/simulation.py
\* ratios are carried in thousandths
_compute_amplification(names, agts, initial_buffers) ==
  LET nameset == Range(names)
      PerAgent(n) ==
        LET direct == initial_buffers[n] - agts[n].liquidity.B1
            total == initial_buffers[n] - agts[n].liquidity.B3
        IN IF direct > 0 THEN MulDiv(total, 1000, direct) ELSE 1000
      D(n) == Max(initial_buffers[n] - agts[n].liquidity.B1, Eps)
      T(n) == Max(initial_buffers[n] - agts[n].liquidity.B3, Eps)
      types == {agts[n].agent_type : n \in nameset}
      OfType(t) == {n \in nameset : agts[n].agent_type = t}
      PerType(t) == MulDiv(SumF([n \in OfType(t) |-> T(n)], OfType(t)), 1000,
                           SumF([n \in OfType(t) |-> D(n)], OfType(t)))
      total_d == SumF([n \in nameset |-> D(n)], nameset)
      total_t == SumF([n \in nameset |-> T(n)], nameset)
  IN [ per_agent |-> [n \in nameset |-> PerAgent(n)],
       per_type |-> [t \in types |-> PerType(t)],
       system_wide |-> IF total_d > 0 THEN MulDiv(total_t, 1000, total_d) ELSE 1000 ]

_compute_summary(names, agts, market) ==
  LET nameset == Range(names)
      hfs == {n \in nameset : agts[n].agent_type = "hedge_fund"}
  IN [ total_agents |-> Len(names),
       agents_reacted |-> Cardinality({n \in nameset : agts[n].has_reacted}),
       total_margin_calls_mm |-> SumF([n \in nameset |-> agts[n].cumulative_margin_calls_mm], nameset),
       total_asset_sales_mm |-> SumF([n \in nameset |-> agts[n].cumulative_asset_sales_mm], nameset),
       nbfi_gilt_sales_mm |->
         SumF([n \in nameset |-> IF agts[n].agent_type # "bank"
                                 THEN agts[n].cumulative_gilt_sales_mm ELSE 0], nameset),
       total_repo_demand_mm |-> SumF([n \in nameset |-> agts[n].cumulative_repo_demand_mm], nameset),
       final_gilt_yield |-> market.gilt_10y_yield_chg_bps,
       final_ig_spread |-> market.ig_corp_spread_chg_bps,
       final_repo_avail |-> market.repo_market_availability_pct,
       hfs_seeking_repo |-> Cardinality({n \in hfs : agts[n].has_ever_sought_repo}),
       hfs_refused_by_all |-> Cardinality({n \in hfs : agts[n].repo_refused_by_all}) ]

\* the update taking every sale out of the agent's cash or facility item
SoldItem_from_cash(a, action) ==
  LET cash == {"BoE Facility Eligible", "Cash & Margin", "Cash & MMF", "Cash & Liquid",
               "Cash Buffer"} \cap DOMAIN a.balance_sheet
  IN IF action \in ContainsSellGilt \cup ContainsSellCorp /\ cash # {}
     THEN CHOOSE i \in cash : TRUE ELSE ""

\* the item a sale action is booked against, "" when there is none
SoldItem(a, action) ==
  IF action \in ContainsSellGilt
  THEN IF Has(a, "Gilt Holdings") THEN "Gilt Holdings"
       ELSE IF Has(a, "Gilt Positions (net)") THEN "Gilt Positions (net)" ELSE ""
  ELSE IF action \in ContainsSellCorp
  THEN IF Has(a, "Corporate Bonds") THEN "Corporate Bonds"
       ELSE IF Has(a, "Corporate Bond Holdings") THEN "Corporate Bond Holdings"
       ELSE IF Has(a, "Corp Bond Positions") THEN "Corp Bond Positions" ELSE ""
  ELSE ""

RECURSIVE BookSales_unfloored(_, _)
\* the loop without the max(0, .)
BookSales_unfloored(a, actions) ==
  IF actions = {} THEN a
  ELSE LET action == CHOOSE x \in actions : TRUE
           item == SoldItem(a, action)
           a1 == IF item = "" THEN a
                 ELSE [a EXCEPT !.balance_sheet[item].amount_mm = @ - a.reactions[action]]
       IN BookSales_unfloored(a1, actions \ {action})

\* the loop over one agent's reactions; the amounts are never negative, so
\* the order in which the sales are booked does not change the result
RECURSIVE BookSales(_, _)
BookSales(a, actions) ==
  IF actions = {} THEN a
  ELSE LET action == CHOOSE x \in actions : TRUE
           item == SoldItem(a, action)
           a1 == IF item = "" THEN a
                 ELSE [a EXCEPT !.balance_sheet[item].amount_mm =
                         Max(0, @ - a.reactions[action])]
       IN BookSales(a1, actions \ {action})

_update_balance_sheets(agts) ==
  [n \in DOMAIN agts |-> BookSales(agts[n], DOMAIN agts[n].reactions)]

\* ------------------------------------------------ the modelled population
\* three banks, two hedge funds, one LDI fund, one insurer, one pooled fund,
\* in the order generate_all_agents returns them
Bank_config(name, theta, risk_appetite, scale, boe_mm) ==
  [ name |-> name, theta |-> theta, total_bs_mm |-> 200 * U * scale,
    risk_appetite |-> risk_appetite,
    balance_sheet |->
      [ gilt_holdings_mm |-> 16 * U * scale, corp_bond_holdings_mm |-> 10 * U * scale,
        equity_portfolio_mm |-> 1 * U * scale, repo_lending_mm |-> 20 * U * scale,
        derivative_assets_mm |-> 12 * U * scale, boe_facility_eligible_mm |-> boe_mm,
        wholesale_funding_mm |-> 16 * U * scale, cet1_buffer_mm |-> 10 * U * scale ],
    market_making_capacity |->
      [ gilt_appetite_mm |-> 3 * U * scale, corp_bond_appetite_mm |-> 1 * U * scale,
        appetite_consumed_pct |-> 3000 ],
    repo_provision |->
      [ total_capacity_mm |-> 10 * U * scale, willingness_to_roll_pct |-> 9000,
        willingness_to_extend_new_pct |-> 7000 ] ]

HF_config(name, theta, strategy, primary, secondary, repo_dependence) ==
  [ name |-> name, theta |-> theta, aum_mm |-> 20 * U, strategy |-> strategy,
    gross_leverage |-> 25, var_utilisation |-> 6000, repo_dependence |-> repo_dependence,
    strategy_profile |->
      [ primary_sensitivities |-> primary, secondary_sensitivities |-> secondary,
        gilt_exposure_pct |-> 300, equity_exposure_pct |-> 100,
        corp_bond_exposure_pct |-> 100,
        basis_trade_pct |-> IF strategy = "relative_value" THEN 400 ELSE 0 ] ]

LDI_config(name, theta) ==
  [ name |-> name, theta |-> theta, yield_buffer_bps |-> 45 * YU,
    balance_sheet |->
      [ gilt_holdings_mm |-> 30 * U, il_gilt_holdings_mm |-> 20 * U,
        corp_bond_holdings_mm |-> 10 * U, cash_and_mmf_mm |-> 4 * U,
        derivatives_exposure_notional_mm |-> 60 * U, ldi_leverage_ratio |-> 30,
        unencumbered_collateral_mm |-> 5 * U, margin_posted_mm |-> 3 * U ],
    recapitalisation |->
      [ pension_scheme_can_recapitalise_mm |-> 6 * U, recapitalisation_speed_days |-> 3 ] ]

Insurer_config(name, theta) ==
  [ name |-> name, theta |-> theta, hedge_ratio |-> 7000, dirty_csa_pct |-> 3000,
    balance_sheet |->
      [ gilt_holdings_mm |-> 30 * U, corp_bond_holdings_mm |-> 30 * U,
        equity_portfolio_mm |-> 10 * U, derivative_hedges_notional_mm |-> 40 * U,
        cash_and_liquid_mm |-> 3 * U, margin_posted_mm |-> 2 * U,
        committed_repo_lines_mm |-> 3 * U, rcf_available_mm |-> 2 * U ] ]

OEF_config(name, theta) ==
  [ name |-> name, theta |-> theta, aum_mm |-> 50 * U, strategy |-> "corporate_bond_fund",
    pension_investor_pct |-> 4000, insurer_investor_pct |-> 2000, cash_buffer_pct |-> 50,
    strategy_composition |-> [ gilt_pct |-> 250, corp_pct |-> 550, abs_pct |-> 100, cash_pct |-> 0 ] ]

\* generate_all_agents: the agents by name
Population ==
  ( "Bank_01" :> BankAgent(Bank_config("Bank_01", 1500, 7000, 3, 160 * U)) ) @@
  ( "Bank_02" :> BankAgent(Bank_config("Bank_02", 800, 5000, 2, 24 * U)) ) @@
  ( "Bank_03" :> BankAgent(Bank_config("Bank_03", 1500, 3000, 1, 12 * U)) ) @@
  ( "HF_01" :> HedgeFundAgent(HF_config("HF_01", 1500, "relative_value",
                 {"bond_futures_basis", "gilt_10y_yield"}, {"sonia_swap"}, "very_high")) ) @@
  ( "HF_02" :> HedgeFundAgent(HF_config("HF_02", 7000, "multi_strategy",
                 {"gilt_10y_yield", "equity", "ig_corp_spread"}, {}, "medium")) ) @@
  ( "LDI_01" :> LDIPensionAgent(LDI_config("LDI_01", 2000)) ) @@
  ( "Insurer_01" :> InsurerAgent(Insurer_config("Insurer_01", 2000)) ) @@
  ( "OEF_01" :> OEFMMFAgent(OEF_config("OEF_01", 2000)) )

Names == DOMAIN Population

\* the list generate_all_agents returns, and the same agents with the pooled
\* fund first
FactoryOrder == << "Bank_01", "Bank_02", "Bank_03", "HF_01", "HF_02",
                   "LDI_01", "Insurer_01", "OEF_01" >>
PooledFirstOrder == << "OEF_01", "Bank_01", "Bank_02", "Bank_03", "HF_01", "HF_02",
                       "LDI_01", "Insurer_01" >>

\* RelationshipNetwork.__init__
EmptyNetwork ==
  [ graph |-> [nodes |-> {}, edges |-> {}],
    bank_hf_edges |-> << >>, bank_ldi_edges |-> << >>,
    bank_insurer_edges |-> << >>, nbfi_oef_edges |-> << >> ]

\* graph.add_edge(u, v) on the undirected simple graph, and an append of
\* (first, second) to one of the edge lists
AddEdge(net, list, first, second) ==
  [net EXCEPT !.graph.edges = @ \cup {{first, second}},
              ![list] = Append(@, <<first, second>>)]

\* a network build_network can produce for the population
NetworkA ==
  [ graph |-> [ nodes |-> Names,
                edges |-> { {"Bank_01", "HF_01"}, {"Bank_02", "HF_01"}, {"Bank_02", "HF_02"},
                            {"Bank_03", "HF_02"}, {"Bank_01", "LDI_01"},
                            {"Bank_03", "Insurer_01"}, {"HF_01", "OEF_01"},
                            {"HF_02", "OEF_01"}, {"LDI_01", "OEF_01"},
                            {"Insurer_01", "OEF_01"} } ],
    bank_hf_edges |-> << <<"Bank_01", "HF_01">>, <<"Bank_02", "HF_01">>,
                         <<"Bank_02", "HF_02">>, <<"Bank_03", "HF_02">> >>,
    bank_ldi_edges |-> << <<"Bank_01", "LDI_01">> >>,
    bank_insurer_edges |-> << <<"Bank_03", "Insurer_01">> >>,
    nbfi_oef_edges |-> << <<"HF_01", "OEF_01">>, <<"HF_02", "OEF_01">>,
                          <<"LDI_01", "OEF_01">>, <<"Insurer_01", "OEF_01">> >> ]

\* ------------------------------------------------------------ scenarios
\* one day of a scenario: the level of each of the 13 variables
Calm == [v \in Vars13 |-> IF v = "vix" THEN 15 ELSE 0]
Stress ==
  ( "gilt_10y_yield" :> 40 ) @@ ( "gilt_30y_yield" :> 50 ) @@ ( "il_gilt_yield" :> 30 ) @@
  ( "ust_10y_yield" :> 20 ) @@ ( "ig_corp_spread" :> 30 ) @@ ( "hy_corp_spread" :> 60 ) @@
  ( "equity" :> -5 ) @@ ( "sonia_swap" :> 30 ) @@ ( "fx_gbpusd" :> -2 ) @@
  ( "repo_haircut_gilt" :> 2 ) @@ ( "repo_haircut_corp" :> 4 ) @@
  ( "bond_futures_basis" :> 10 ) @@ ( "vix" :> 30 )
Severe ==
  ( "gilt_10y_yield" :> 60 ) @@ ( "gilt_30y_yield" :> 75 ) @@ ( "il_gilt_yield" :> 50 ) @@
  ( "ust_10y_yield" :> 30 ) @@ ( "ig_corp_spread" :> 50 ) @@ ( "hy_corp_spread" :> 100 ) @@
  ( "equity" :> -10 ) @@ ( "sonia_swap" :> 45 ) @@ ( "fx_gbpusd" :> -4 ) @@
  ( "repo_haircut_gilt" :> 4 ) @@ ( "repo_haircut_corp" :> 8 ) @@
  ( "bond_futures_basis" :> 20 ) @@ ( "vix" :> 45 )
ScenarioDays == { Calm, Stress, Severe }
\* load_scenario: horizon_days days, each one of the days above
Scenarios == [1..NDays -> ScenarioDays]

\* ------------------------------------------------------ run_simulation
VARIABLES
  agents,               \* the agent objects, by name
  agent_list,           \* the order of the list handed to run_simulation
  network,              \* the RelationshipNetwork
  market,               \* the MarketState of the run
  scenario,             \* the loaded scenario, one entry per day
  enable_feedback, feedback_iterations,
  pc,                   \* where the run is
  day,                  \* the loop variable of the day loop
  idx,                  \* position in the loop over agents (or banks) being run
  iter,                 \* stage-3 iterations done today
  gilt_remaining_total, corp_remaining_total,
  initial_buffers, daily_market, daily_agents,
  results,              \* what the run returned
  run,                  \* 1: the run with feedback, 2: the run without
  results_fb,           \* what the first run returned
  passed,               \* history: who has been through which pass today
  q                     \* the calls made by the query and reaction harnesses

vars == << agents, agent_list, network, market, scenario, enable_feedback,
           feedback_iterations, pc, day, idx, iter, gilt_remaining_total,
           corp_remaining_total, initial_buffers, daily_market, daily_agents,
           results, run, results_fb, passed, q >>

NoResults == [ amplification_ratios |-> [ per_agent |-> EmptyMap, per_type |-> EmptyMap,
                                          system_wide |-> 0 ],
               summary |-> EmptyMap ]
NoPass == [ stage1 |-> {}, stage2 |-> {}, registered |-> {}, absorbed |-> {},
            stage3 |-> 0, no_feedback |-> FALSE, recorded |-> FALSE,
            \* the capacity each bank had left when the totals were taken,
            \* and the shares handed to the banks that have absorbed
            gilt_rem |-> EmptyMap, corp_rem |-> EmptyMap, shares |-> EmptyMap ]
NoQuery == [ fn |-> "", calls |-> 0 ]

\* banks = [a for a in agents if a.agent_type == "bank"]
Banks(names, agts) == SelectSeq(names, LAMBDA n : agts[n].agent_type = "bank")

\* day_values and day_delta of a day (days count from 0)
DayValues(sc, d) == sc[d + 1]
DayDelta(sc, d) ==
  [k \in DOMAIN DayValues(sc, d) |->
     DayValues(sc, d)[k] - (IF d = 0 THEN 0 ELSE DayValues(sc, d - 1)[k])]

Init ==
  /\ agents = Population
  /\ agent_list \in { FactoryOrder, PooledFirstOrder }
  /\ network = NetworkA
  /\ market = MarketState
  /\ scenario \in Scenarios
  /\ enable_feedback = TRUE
  /\ feedback_iterations \in 0..MaxIter
  /\ pc = "init"
  /\ day = 0
  /\ idx = 1
  /\ iter = 0
  /\ gilt_remaining_total = 0
  /\ corp_remaining_total = 0
  /\ initial_buffers = EmptyMap
  /\ daily_market = << >>
  /\ daily_agents = << >>
  /\ results = NoResults
  /\ run = 1
  /\ results_fb = NoResults
  /\ passed = NoPass
  /\ q = NoQuery

\* lines 20-29: a fresh market, empty logs, every agent's initial buffer
BeginRun ==
  /\ pc = "init"
  /\ market' = MarketState
  /\ daily_market' = << >>
  /\ daily_agents' = << >>
  /\ agents' = [n \in DOMAIN agents |->
                  IF n \in Range(agent_list) THEN compute_initial_buffer(agents[n]).self
                  ELSE agents[n]]
  /\ initial_buffers' = [n \in Range(agent_list) |-> compute_initial_buffer(agents[n]).ret]
  /\ day' = 0
  /\ pc' = IF NDays > 0 THEN "start_day" ELSE "finish"
  /\ UNCHANGED << agent_list, network, scenario, enable_feedback, feedback_iterations,
                  idx, iter, gilt_remaining_total, corp_remaining_total, results, run,
                  results_fb, passed, q >>

\* lines 32-39: the day's scenario values go into the market
StartDay ==
  /\ pc = "start_day"
  /\ market' = apply_exogenous_scenario([market EXCEPT !.day = day], DayValues(scenario, day))
  /\ passed' = NoPass
  /\ idx' = 1
  /\ iter' = 0
  /\ pc' = "stage1"
  /\ UNCHANGED << agents, agent_list, network, scenario, enable_feedback,
                  feedback_iterations, day, gilt_remaining_total, corp_remaining_total,
                  initial_buffers, daily_market, daily_agents, results, run,
                  results_fb, q >>

\* where a loop over the agents goes after its step at idx
NextIdx(len) == IF idx < len THEN idx + 1 ELSE 1
\* a loop left after its first step
AfterLoop_first(len, here, next) == next
AfterLoop(len, here, next) == IF idx < len THEN here ELSE next

\* lines 42-45, one agent
Stage1Step ==
  /\ pc = "stage1"
  /\ LET n == agent_list[idx]
         a1 == reset_daily(agents[n])
         a2 == compute_initial_buffer(a1).self
         agts == [agents EXCEPT ![n] = a2]
     IN agents' = [agents EXCEPT
                     ![n] = compute_stage1(a2, market, DayDelta(scenario, day), network, agts)]
  /\ passed' = [passed EXCEPT !.stage1 = @ \cup {agent_list[idx]}]
  /\ idx' = NextIdx(Len(agent_list))
  /\ pc' = AfterLoop(Len(agent_list), "stage1", "stage2")
  /\ UNCHANGED << agent_list, network, market, scenario, enable_feedback,
                  feedback_iterations, day, iter, gilt_remaining_total,
                  corp_remaining_total, initial_buffers, daily_market, daily_agents,
                  results, run, results_fb, q >>

\* lines 48-49, one agent
Stage2Step ==
  /\ pc = "stage2"
  /\ LET n == agent_list[idx]
     IN agents' = [agents EXCEPT ![n] = compute_stage2(agents[n], market, network, agents)]
  /\ passed' = [passed EXCEPT !.stage2 = @ \cup {agent_list[idx]}]
  /\ idx' = NextIdx(Len(agent_list))
  /\ pc' = AfterLoop(Len(agent_list), "stage2", "register")
  /\ UNCHANGED << agent_list, network, market, scenario, enable_feedback,
                  feedback_iterations, day, iter, gilt_remaining_total,
                  corp_remaining_total, initial_buffers, daily_market, daily_agents,
                  results, run, results_fb, q >>

\* lines 52-53, one agent
RegisterStep ==
  /\ pc = "register"
  /\ market' = register_actions_to_market(agents[agent_list[idx]], market)
  /\ passed' = [passed EXCEPT !.registered = @ \cup {agent_list[idx]}]
  /\ idx' = NextIdx(Len(agent_list))
  /\ pc' = AfterLoop(Len(agent_list), "register", "absorb_totals")
  /\ UNCHANGED << agents, agent_list, network, scenario, enable_feedback,
                  feedback_iterations, day, iter, gilt_remaining_total,
                  corp_remaining_total, initial_buffers, daily_market, daily_agents,
                  results, run, results_fb, q >>

\* where the run goes once every bank has absorbed its share (lines 78-85)
AfterAbsorb ==
  IF enable_feedback
  THEN IF feedback_iterations > 0 THEN "stage3" ELSE "record"
  ELSE "no_feedback"

\* the wrong share: the selling split evenly over the banks with capacity
Share_even(selling, rem, remaining_total) ==
  IF remaining_total > 0 /\ rem > 0 THEN selling \div 2 ELSE 0

\* selling * (rem / remaining_total), 0 when no capacity is left in total
Share(selling, rem, remaining_total) ==
  IF remaining_total > 0 THEN MulDiv(selling, rem, remaining_total) ELSE 0

\* lines 57-65: the banks and the capacity left in total
AbsorbTotals ==
  /\ pc = "absorb_totals"
  /\ LET banks == Banks(agent_list, agents)
     IN /\ gilt_remaining_total' =
             SumF([i \in DOMAIN banks |-> GiltRemaining(agents[banks[i]])], DOMAIN banks)
        /\ corp_remaining_total' =
             SumF([i \in DOMAIN banks |-> CorpRemaining(agents[banks[i]])], DOMAIN banks)
        /\ pc' = IF Len(banks) > 0 THEN "absorb" ELSE AfterAbsorb
        /\ passed' = [passed EXCEPT
                        !.gilt_rem = [b \in Range(banks) |-> GiltRemaining(agents[b])],
                        !.corp_rem = [b \in Range(banks) |-> CorpRemaining(agents[b])]]
  /\ idx' = 1
  /\ UNCHANGED << agents, agent_list, network, market, scenario, enable_feedback,
                  feedback_iterations, day, iter, initial_buffers, daily_market,
                  daily_agents, results, run, results_fb, q >>

\* the pass with a tightening bank dropping its hedge-fund edges
AbsorbStep_cutting_edges ==
  /\ pc = "absorb"
  /\ LET banks == Banks(agent_list, agents)
         bank == agents[banks[idx]]
         gilt_share == Share(market.endogenous_gilt_selling_mm, GiltRemaining(bank),
                             gilt_remaining_total)
         corp_share == Share(market.endogenous_corp_selling_mm, CorpRemaining(bank),
                             corp_remaining_total)
     IN /\ agents' = [agents EXCEPT
                        ![banks[idx]] = post_registration_update(bank, gilt_share, corp_share)]
        /\ passed' = [passed EXCEPT
                        !.absorbed = @ \cup {banks[idx]},
                        !.shares = Put(@, banks[idx], [gilt |-> gilt_share, corp |-> corp_share])]
        /\ idx' = NextIdx(Len(banks))
        /\ pc' = AfterLoop(Len(banks), "absorb", AfterAbsorb)
  /\ network' = LET bank == Banks(agent_list, agents)[idx]
                 IN IF agents[bank].has_reacted
                    THEN [network EXCEPT
                            !.bank_hf_edges = SelectSeq(@, LAMBDA e : e[1] # bank)]
                    ELSE network
  /\ UNCHANGED << agent_list, market, scenario, enable_feedback,
                  feedback_iterations, day, iter, gilt_remaining_total,
                  corp_remaining_total, initial_buffers, daily_market, daily_agents,
                  results, run, results_fb, q >>

\* lines 66-75, one bank
AbsorbStep ==
  /\ pc = "absorb"
  /\ LET banks == Banks(agent_list, agents)
         bank == agents[banks[idx]]
         gilt_share == Share(market.endogenous_gilt_selling_mm, GiltRemaining(bank),
                             gilt_remaining_total)
         corp_share == Share(market.endogenous_corp_selling_mm, CorpRemaining(bank),
                             corp_remaining_total)
     IN /\ agents' = [agents EXCEPT
                        ![banks[idx]] = post_registration_update(bank, gilt_share, corp_share)]
        /\ passed' = [passed EXCEPT
                        !.absorbed = @ \cup {banks[idx]},
                        !.shares = Put(@, banks[idx], [gilt |-> gilt_share, corp |-> corp_share])]
        /\ idx' = NextIdx(Len(banks))
        /\ pc' = AfterLoop(Len(banks), "absorb", AfterAbsorb)
  /\ UNCHANGED << agent_list, network, market, scenario, enable_feedback,
                  feedback_iterations, day, iter, gilt_remaining_total,
                  corp_remaining_total, initial_buffers, daily_market, daily_agents,
                  results, run, results_fb, q >>

\* lines 79-81, one iteration
FeedbackIter ==
  /\ pc = "stage3"
  /\ market' = apply_endogenous_feedback(market)
  /\ agents' = compute_stage3_feedback(agent_list, agents, market', network)
  /\ iter' = iter + 1
  /\ passed' = [passed EXCEPT !.stage3 = @ + 1]
  /\ pc' = IF iter + 1 < feedback_iterations THEN "stage3" ELSE "record"
  /\ UNCHANGED << agent_list, network, scenario, enable_feedback, feedback_iterations,
                  day, idx, gilt_remaining_total, corp_remaining_total, initial_buffers,
                  daily_market, daily_agents, results, run, results_fb, q >>

\* lines 83-85
NoFeedback ==
  /\ pc = "no_feedback"
  /\ agents' = [n \in DOMAIN agents |->
                  IF n \in Range(agent_list)
                  THEN [agents[n] EXCEPT !.liquidity.E2 = 0,
                                         !.liquidity.B3 = agents[n].liquidity.B2]
                  ELSE agents[n]]
  /\ passed' = [passed EXCEPT !.no_feedback = TRUE]
  /\ pc' = "record"
  /\ UNCHANGED << agent_list, network, market, scenario, enable_feedback,
                  feedback_iterations, day, idx, iter, gilt_remaining_total,
                  corp_remaining_total, initial_buffers, daily_market, daily_agents,
                  results, run, results_fb, q >>

\* lines 88-94: the day's snapshots, then the sales leave the balance sheets
Record ==
  /\ pc = "record"
  /\ daily_market' = Append(daily_market, snapshot(market))
  /\ daily_agents' = daily_agents \o
                       [i \in DOMAIN agent_list |-> daily_snapshot(agents[agent_list[i]], day)]
  /\ agents' = [n \in DOMAIN agents |->
                  IF n \in Range(agent_list) THEN _update_balance_sheets(agents)[n]
                  ELSE agents[n]]
  /\ passed' = [passed EXCEPT !.recorded = TRUE]
  /\ day' = IF day + 1 < NDays THEN day + 1 ELSE day
  /\ pc' = IF day + 1 < NDays THEN "start_day" ELSE "finish"
  /\ UNCHANGED << agent_list, network, market, scenario, enable_feedback,
                  feedback_iterations, idx, iter, gilt_remaining_total,
                  corp_remaining_total, initial_buffers, results, run, results_fb, q >>

\* lines 97-109
Finish ==
  /\ pc = "finish"
  /\ results' = [ amplification_ratios |->
                    _compute_amplification(agent_list, agents, initial_buffers),
                  summary |-> _compute_summary(agent_list, agents, market) ]
  /\ pc' = "done"
  /\ UNCHANGED << agents, agent_list, network, market, scenario, enable_feedback,
                  feedback_iterations, day, idx, iter, gilt_remaining_total,
                  corp_remaining_total, initial_buffers, daily_market, daily_agents,
                  run, results_fb, passed, q >>

\* test_validation.py TEST 4: the same population, network and scenario
\* again, with feedback disabled
NextRun ==
  /\ pc = "done"
  /\ run = 1
  /\ results_fb' = results
  /\ results' = NoResults
  /\ agents' = Population
  /\ enable_feedback' = FALSE
  /\ run' = 2
  /\ pc' = "init"
  /\ passed' = NoPass
  \* the locals of the finished call are gone
  /\ initial_buffers' = EmptyMap
  /\ daily_market' = << >>
  /\ daily_agents' = << >>
  /\ UNCHANGED << agent_list, network, market, scenario, feedback_iterations, day, idx,
                  iter, gilt_remaining_total, corp_remaining_total, q >>

Next ==
  \/ BeginRun \/ StartDay \/ Stage1Step \/ Stage2Step \/ RegisterStep
  \/ AbsorbTotals \/ AbsorbStep \/ FeedbackIter \/ NoFeedback \/ Record
  \/ Finish \/ NextRun

Spec == Init /\ [][Next]_vars

\* ================================================== properties of a run
Snapshots == {daily_agents[i] : i \in DOMAIN daily_agents}
SystemWide(r) == r.amplification_ratios.system_wide

\* C1: in every per-day agent snapshot run_simulation has recorded, B1 is
\* the day's buffer B0 less the day's stage-1 loss E1.
C1_Stage1Identity == \A s \in Snapshots : s.B1 = s.B0 - s.E1

\* a snapshot of an agent that lost more than its buffer in stage 1
C1_Witness == \E s \in Snapshots : s.E1 > s.B0 /\ s.B0 > 0 /\ s.B1 < 0

\* C2: in every per-day agent snapshot run_simulation has recorded, B3 is
\* B2 less the E2 of that day, with feedback disabled and with feedback
\* enabled for every feedback_iterations >= 0.
C2_Stage3Identity == \A s \in Snapshots : s.B3 = s.B2 - s.E2

\* C2 where stage 3 has touched the agents: feedback disabled, or at least
\* one iteration
C2_Stage3IdentityWhenRun ==
  (~enable_feedback \/ feedback_iterations >= 1) => C2_Stage3Identity

\* C4: of two runs from the same population, network and scenario, the one
\* with feedback (feedback_iterations >= 1) returns a System-Wide
\* amplification ratio no smaller than the one without.
C4_FeedbackNotSmaller ==
  (pc = "done" /\ run = 2 /\ feedback_iterations >= 1)
    => SystemWide(results_fb) >= SystemWide(results)

\* both runs are over and feedback made the ratio strictly larger
C4_Witness ==
  /\ pc = "done" /\ run = 2 /\ feedback_iterations >= 1
  /\ SystemWide(results_fb) > SystemWide(results)

\* every agent starts from a positive buffer and has a positive stage-1 loss
\* on the final day
NonDegenerate ==
  \A n \in Range(agent_list) :
    /\ n \in DOMAIN initial_buffers /\ initial_buffers[n] > 0
    /\ agents[n].liquidity.B0 > 0 /\ agents[n].liquidity.E1 > 0

\* C5: on non-degenerate input the System-Wide amplification ratio a run
\* returns is at least 1.0, with feedback and without.
C5_RatioAtLeastOne ==
  (pc = "done" /\ NonDegenerate) => SystemWide(results) >= 1000

\* C9: within a day nobody starts stage 2 before everybody is through
\* stage 1, nobody registers before everybody is through stage 2, no bank
\* absorbs before everybody has registered, stage 3 starts only after every
\* bank has absorbed, and the snapshots are recorded after the last stage-3
\* iteration.
C9_PhaseOrder ==
  LET everybody == Range(agent_list)
      banks == Range(Banks(agent_list, agents))
  IN /\ passed.stage2 # {} => passed.stage1 = everybody
     /\ passed.registered # {} => passed.stage2 = everybody
     /\ passed.absorbed # {} => passed.registered = everybody
     /\ (passed.stage3 > 0 \/ passed.no_feedback)
          => (passed.absorbed = banks /\ passed.registered = everybody)
     /\ passed.recorded
          => /\ passed.stage1 = everybody /\ passed.absorbed = banks
             /\ IF enable_feedback THEN passed.stage3 = feedback_iterations
                ELSE passed.no_feedback

\* a day recorded after two stage-3 iterations over a population with banks
C9_Witness ==
  /\ passed.recorded /\ passed.stage3 >= 2
  /\ passed.absorbed # {} /\ passed.stage2 = Range(agent_list)

\* the realisation rate C10 gives an action, as a fraction of Den4
\* (reduce_repo_lending is read as a repo action, as the code credits it)
C10_Rate(action) ==
  IF action \in StartsWithSell
  THEN Max(Den4 \div 2, Den4 - market.gilt_bid_ask_spread_bps)
  ELSE IF action \in {"seek_repo", "reduce_repo_lending"}
  THEN market.repo_market_availability_pct
  ELSE IF action \in {"boe_facility", "draw_repo_line", "draw_rcf"} THEN 9500
  ELSE IF action = "redeem_mmf" THEN 9000
  ELSE 8000

\* from an agent's stage 2 until the first stage-3 iteration the spread and
\* the repo availability are those stage 2 saw
Stage2Done == { n \in passed.stage2 : passed.stage3 = 0 /\ ~passed.recorded }

\* C10: after compute_stage2 an agent that does not react has no reactions
\* and B2 = B1; one that reacts has B2 = B1 + the sum of amount x rate over
\* its actions, facility draws (central-bank facility, committed repo line,
\* RCF) at 0.95, redemptions at 0.90, sales at max(0.5, 1 - spread/100),
\* repo at the repo availability, anything else at 0.80.
C10_Stage2Credit ==
  \A n \in Stage2Done :
    LET a == agents[n]
        rs == a.reactions
    IN IF ~should_react(a)
       THEN ~a.has_reacted /\ rs = EmptyMap /\ a.liquidity.B2 = a.liquidity.B1
       ELSE /\ a.has_reacted
            /\ a.liquidity.B2 = a.liquidity.B1 +
                 SumF([x \in DOMAIN rs |-> MulDiv(rs[x], C10_Rate(x), Den4)], DOMAIN rs)

\* ======================================= should_react on its own (C3)
\* theta values tried: 0, 0.5, 1.0, 1.5
Thetas == {0, Den4 \div 2, Den4, Den4 + Den4 \div 2}

\* every agent of the population with the same B0, E1 and theta
InitReact ==
  /\ \E B0 \in -QMax..QMax, E1 \in -QMax..QMax, th \in Thetas :
       agents = [n \in Names |->
                   [Population[n] EXCEPT !.liquidity.B0 = B0 * U,
                                         !.liquidity.E1 = E1 * U, !.theta = th]]
  /\ agent_list = FactoryOrder
  /\ network = NetworkA
  /\ market = MarketState
  /\ scenario = [d \in 1..NDays |-> Calm]
  /\ enable_feedback = TRUE
  /\ feedback_iterations = 0
  /\ pc = "harness"
  /\ day = 0
  /\ idx = 1
  /\ iter = 0
  /\ gilt_remaining_total = 0
  /\ corp_remaining_total = 0
  /\ initial_buffers = EmptyMap
  /\ daily_market = << >>
  /\ daily_agents = << >>
  /\ results = NoResults
  /\ run = 1
  /\ results_fb = NoResults
  /\ passed = NoPass
  /\ q = NoQuery

\* one call of should_react; the method assigns nothing
CallShouldReact ==
  /\ pc = "harness"
  /\ q.calls = 0
  /\ \E n \in Names :
       q' = [ fn |-> "should_react", calls |-> 1, name |-> n,
              ret |-> should_react(agents[n]), before |-> agents[n] ]
  /\ UNCHANGED << agents, agent_list, network, market, scenario, enable_feedback,
                  feedback_iterations, pc, day, idx, iter, gilt_remaining_total,
                  corp_remaining_total, initial_buffers, daily_market, daily_agents,
                  results, run, results_fb, passed >>

NextReact == CallShouldReact

SpecReact == InitReact /\ [][NextReact]_vars

\* C3: should_react() returns true exactly when B0 > 0 and E1/B0 > theta
\* (so never for B0 <= 0), and the agent is afterwards what it was before.
C3_ShouldReact ==
  q.fn = "should_react" =>
    LET l == q.before.liquidity
    IN /\ q.ret = (l.B0 > 0 /\ l.E1 * Den4 > q.before.theta * l.B0)
       /\ (l.B0 <= 0 => q.ret = FALSE)
       /\ agents[q.name] = q.before

\* a call that returned true, and the stress ratio was above a theta > 0
C3_Witness ==
  /\ q.fn = "should_react" /\ q.ret = TRUE
  /\ q.before.theta > 0 /\ q.before.liquidity.B0 > 0

\* ============================ the stage-1 queries called twice (C8)
QueryFns == { "compute_initial_buffer", "compute_mtm_impact",
              "compute_margin_calls", "compute_redemptions" }

\* one call of a query on agent a, with the run's market, network and agents
Call(fn, a) ==
  CASE fn = "compute_initial_buffer" -> compute_initial_buffer(a)
    [] fn = "compute_mtm_impact" -> compute_mtm_impact(a, market, DayDelta(scenario, day))
    [] fn = "compute_margin_calls" -> compute_margin_calls(a, market)
    [] fn = "compute_redemptions" -> compute_redemptions(a, market, network, agents)

InitQuery == Init /\ feedback_iterations = 1

\* a first call, on a day whose stage-1 pass is over
FirstCall ==
  /\ pc = "stage2"
  /\ idx = 1
  /\ \E n \in Range(agent_list), fn \in QueryFns :
       /\ q' = [ fn |-> fn, calls |-> 1, name |-> n,
                 ret1 |-> Call(fn, agents[n]).ret, after1 |-> Call(fn, agents[n]).self ]
       /\ agents' = [agents EXCEPT ![n] = Call(fn, agents[n]).self]
  /\ pc' = "queried"
  /\ UNCHANGED << agent_list, network, market, scenario, enable_feedback,
                  feedback_iterations, day, idx, iter, gilt_remaining_total,
                  corp_remaining_total, initial_buffers, daily_market, daily_agents,
                  results, run, results_fb, passed >>

\* the same call again
SecondCall ==
  /\ pc = "queried"
  /\ q.calls = 1
  /\ q' = [ fn |-> q.fn, calls |-> 2, name |-> q.name,
            ret1 |-> q.ret1, after1 |-> q.after1,
            ret2 |-> Call(q.fn, agents[q.name]).ret,
            after2 |-> Call(q.fn, agents[q.name]).self ]
  /\ agents' = [agents EXCEPT ![q.name] = Call(q.fn, agents[q.name]).self]
  /\ UNCHANGED << agent_list, network, market, scenario, enable_feedback,
                  feedback_iterations, pc, day, idx, iter, gilt_remaining_total,
                  corp_remaining_total, initial_buffers, daily_market, daily_agents,
                  results, run, results_fb, passed >>

NextQuery ==
  \/ BeginRun \/ StartDay \/ Stage1Step \/ Stage2Step \/ RegisterStep
  \/ AbsorbTotals \/ AbsorbStep \/ FeedbackIter \/ Record
  \/ FirstCall \/ SecondCall

SpecQuery == InitQuery /\ [][NextQuery]_vars

\* C8: a second call of compute_initial_buffer, compute_mtm_impact,
\* compute_margin_calls or compute_redemptions returns what the first call
\* returned and leaves the agent as the first call left it.
C8_QueriesIdempotent ==
  q.calls = 2 => (q.ret2 = q.ret1 /\ q.after2 = q.after1)

\* C8 for every query but the pooled fund's compute_redemptions
C8_IdempotentButPooledRedemptions ==
  (q.calls = 2 /\ ~(q.fn = "compute_redemptions" /\ agents[q.name].agent_type = "oef_mmf"))
    => (q.ret2 = q.ret1 /\ q.after2 = q.after1)

\* ================================ build_network step by step (C7)
OfType(names, agts, type) == SelectSeq(names, LAMBDA n : agts[n].agent_type = type)

\* rng.choice with replace=True: any `size` members of the pool, in any order
ChoiceWithReplacement(pool, size) == [1..size -> Range(pool)]
\* rng.choice(pool, size=size, replace=False): the orders of `size` distinct
\* members of the pool; none when the pool is smaller than size
Choice(pool, size) ==
  {c \in [1..size -> Range(pool)] : \A i, j \in 1..size : i # j => c[i] # c[j]}

\* the iterations of the four loops of build_network, in order
BuildSteps(names, agts) ==
  LET hfs == OfType(names, agts, "hedge_fund")
      ldis == OfType(names, agts, "ldi_pension")
      insurers == OfType(names, agts, "insurer")
      tag(kind, s) == [i \in DOMAIN s |-> <<kind, s[i]>>]
  IN tag("hf", hfs) \o tag("ldi", ldis) \o tag("insurer", insurers)
       \o (IF OfType(names, agts, "oef_mmf") # << >>
           THEN tag("nbfi", hfs \o ldis \o insurers) ELSE << >>)

RECURSIVE AddEdges(_, _, _, _, _)
\* `for x in chosen: add_edge; append`, firsts[i] paired with seconds[i]
AddEdges(net, list, firsts, seconds, i) ==
  IF i > Len(firsts) THEN net
  ELSE AddEdges(AddEdge(net, list, firsts[i], seconds[i]), list, firsts, seconds, i + 1)

Repeat(x, n) == [i \in 1..n |-> x]

InitNet ==
  /\ agents = Population
  /\ agent_list \in {FactoryOrder, PooledFirstOrder}
  /\ network = EmptyNetwork
  /\ market = MarketState
  /\ scenario = [d \in 1..NDays |-> Calm]
  /\ enable_feedback = TRUE
  /\ feedback_iterations = 0
  /\ pc = "new_network"
  /\ day = 0
  /\ idx = 1
  /\ iter = 0
  /\ gilt_remaining_total = 0
  /\ corp_remaining_total = 0
  /\ initial_buffers = EmptyMap
  /\ daily_market = << >>
  /\ daily_agents = << >>
  /\ results = NoResults
  /\ run = 1
  /\ results_fb = NoResults
  /\ passed = NoPass
  /\ q = NoQuery

NetUnchanged ==
  UNCHANGED << agents, agent_list, market, scenario, enable_feedback,
               feedback_iterations, day, iter, gilt_remaining_total,
               corp_remaining_total, initial_buffers, daily_market, daily_agents,
               results, run, results_fb, passed, q >>

\* where build_network is after iteration idx
AfterBuildStep == IF idx = Len(BuildSteps(agent_list, agents)) THEN "built" ELSE "build"

\* `for a in agents: self.graph.add_node(a.name, ...)`
AddNodes ==
  /\ pc = "new_network"
  /\ network' = [network EXCEPT !.graph.nodes = Range(agent_list)]
  /\ pc' = IF BuildSteps(agent_list, agents) = << >> THEN "built" ELSE "build"
  /\ idx' = 1
  /\ NetUnchanged

\* one iteration of a loop over `kind` agents: n_banks = rng.integers(lo, hi + 1),
\* then a choice of min(n_banks, cap) banks
ConnectBanks(kind, list, lo, hi, cap) ==
  /\ pc = "build"
  /\ BuildSteps(agent_list, agents)[idx][1] = kind
  /\ \E n_banks \in lo..hi :
       \E chosen \in Choice(Banks(agent_list, agents), Min(n_banks, cap)) :
         network' = AddEdges(network, list, chosen,
                             Repeat(BuildSteps(agent_list, agents)[idx][2], Len(chosen)), 1)
  /\ pc' = AfterBuildStep
  /\ idx' = idx + 1
  /\ NetUnchanged

ConnectHF == ConnectBanks("hf", "bank_hf_edges", 2, 3, 3)
ConnectLDI == ConnectBanks("ldi", "bank_ldi_edges", 1, 2, 2)
ConnectInsurer ==
  ConnectBanks("insurer", "bank_insurer_edges", 1, 3, Len(Banks(agent_list, agents)))

\* one iteration of `for nbfi in all_nbfis`
ConnectRedemption ==
  /\ pc = "build"
  /\ BuildSteps(agent_list, agents)[idx][1] = "nbfi"
  /\ \E n_oefs \in 1..(Min(4, Len(OfType(agent_list, agents, "oef_mmf")) + 1) - 1) :
       \E chosen \in Choice(OfType(agent_list, agents, "oef_mmf"), n_oefs) :
         network' = AddEdges(network, "nbfi_oef_edges",
                             Repeat(BuildSteps(agent_list, agents)[idx][2], Len(chosen)),
                             chosen, 1)
  /\ pc' = AfterBuildStep
  /\ idx' = idx + 1
  /\ NetUnchanged

NextNet == AddNodes \/ ConnectHF \/ ConnectLDI \/ ConnectInsurer \/ ConnectRedemption

SpecNet == InitNet /\ [][NextNet]_vars

\* the banks a node has a graph edge to
BankNeighbours(n) ==
  {b \in Range(Banks(agent_list, agents)) : {n, b} \in network.graph.edges}

DegreeBounds ==
  [ hedge_fund |-> 2..3, ldi_pension |-> 1..2, insurer |-> 1..3, oef_mmf |-> 0..0 ]

\* the nodes whose bank loop iteration is over
Connected ==
  IF pc = "built" THEN Range(agent_list)
  ELSE {n \in Range(agent_list) :
          \/ agents[n].agent_type \in {"bank", "oef_mmf"}
          \/ \E i \in 1..(idx - 1) : BuildSteps(agent_list, agents)[i] \in
                                        {<<"hf", n>>, <<"ldi", n>>, <<"insurer", n>>}}

\* C7: in a network built for a population with at least three banks, every
\* hedge fund has 2 to 3 distinct bank edges, every LDI fund 1 to 2, every
\* insurer 1 to 3 and every pooled fund none (as soon as build_network has
\* connected the node, and so in the built network); redemption edges lead
\* only from hedge funds, LDI funds and insurers to pooled funds.
C7_NetworkDegrees ==
  (pc \in {"build", "built"} /\ Len(Banks(agent_list, agents)) >= 3) =>
    /\ \A n \in Connected :
         agents[n].agent_type # "bank" =>
           Cardinality(BankNeighbours(n)) \in DegreeBounds[agents[n].agent_type]
    /\ \A n \in Connected :
         /\ agents[n].agent_type = "hedge_fund" =>
              Len(get_connected_banks(network, n)) \in 2..3
         /\ agents[n].agent_type = "ldi_pension" =>
              Len(get_clearing_banks(network, n)) \in 1..2
    /\ \A i \in DOMAIN network.nbfi_oef_edges :
         /\ agents[network.nbfi_oef_edges[i][1]].agent_type
              \in {"hedge_fund", "ldi_pension", "insurer"}
         /\ agents[network.nbfi_oef_edges[i][2]].agent_type = "oef_mmf"
    /\ \A e \in network.graph.edges :
         (\E n \in e : agents[n].agent_type = "oef_mmf") =>
           \E i \in DOMAIN network.nbfi_oef_edges :
             e = {network.nbfi_oef_edges[i][1], network.nbfi_oef_edges[i][2]}

\* a built network where one hedge fund has three banks, another two, and the
\* pooled fund is redeemed from
C7_Witness ==
  /\ pc = "built"
  /\ Cardinality(BankNeighbours("HF_01")) = 3
  /\ Cardinality(BankNeighbours("HF_02")) = 2
  /\ Cardinality(BankNeighbours("Insurer_01")) = 1
  /\ Len(get_oef_redeemers(network, "OEF_01")) = 4

\* build_network has returned the network the simulated runs start from
NetworkABuilt == pc = "built" /\ network = NetworkA

\* ============================================ stage 3, iteration by iteration
NobodyReacted == \A n \in Range(agent_list) : ~agents[n].has_reacted

\* C11: a stage-3 iteration in which no agent has reacted leaves every
\* agent's E2 as it was and sets every agent's B3 to B2 - E2.
C11_QuietIteration ==
  [][ (pc = "stage3" /\ NobodyReacted) =>
        \A n \in Range(agent_list) :
          /\ agents'[n].liquidity.E2 = agents[n].liquidity.E2
          /\ agents'[n].liquidity.B3 = agents'[n].liquidity.B2 - agents'[n].liquidity.E2 ]_vars

\* an iteration has run on a day nobody reacted, over agents holding liquid
\* assets with sensitivities
C11_Witness ==
  /\ passed.stage3 >= 1 /\ NobodyReacted /\ pc \in {"stage3", "record"}
  /\ \E n \in Range(agent_list) : \E i \in DOMAIN agents[n].balance_sheet :
       /\ agents[n].balance_sheet[i].category = "liquid_asset"
       /\ agents[n].balance_sheet[i].amount_mm > 0
       /\ agents[n].balance_sheet[i].sensitivity_map # EmptyMap

\* before anybody registers, and from the start of the day
BeforeRegistration ==
  pc \in {"stage1", "stage2", "register"} /\ passed.registered = {}

\* the endogenous accumulators are zero from the start of a day until the
\* first agent registers
AccumulatorsZeroAtDayStart ==
  BeforeRegistration =>
    /\ market.endogenous_gilt_selling_mm = 0
    /\ market.endogenous_corp_selling_mm = 0
    /\ market.endogenous_repo_demand_mm = 0

\* C12: the day's accumulated selling and repo demand are converted into
\* yield, spread and repo-availability impact once per day, whatever the
\* number of feedback iterations: an iteration after the day's first leaves
\* the yields, the spreads and the repo availability as they were.
C12_ImpactOncePerDay ==
  [][ (pc = "stage3" /\ iter >= 1) =>
        /\ market'.gilt_10y_yield_chg_bps = market.gilt_10y_yield_chg_bps
        /\ market'.gilt_30y_yield_chg_bps = market.gilt_30y_yield_chg_bps
        /\ market'.ig_corp_spread_chg_bps = market.ig_corp_spread_chg_bps
        /\ market'.hy_corp_spread_chg_bps = market.hy_corp_spread_chg_bps
        /\ market'.repo_market_availability_pct = market.repo_market_availability_pct ]_vars

\* ===================================== assess_repo_request on its own (C13)
\* the variables of a run that a call of a single method leaves alone
NoRun ==
  /\ market = MarketState
  /\ scenario = [d \in 1..NDays |-> Calm]
  /\ enable_feedback = TRUE
  /\ feedback_iterations = 0
  /\ day = 0
  /\ idx = 1
  /\ iter = 0
  /\ gilt_remaining_total = 0
  /\ corp_remaining_total = 0
  /\ initial_buffers = EmptyMap
  /\ daily_market = << >>
  /\ daily_agents = << >>
  /\ results = NoResults
  /\ run = 1
  /\ results_fb = NoResults
  /\ passed = NoPass

NoRunUnchanged ==
  UNCHANGED << agent_list, market, scenario, enable_feedback, feedback_iterations,
               day, idx, iter, gilt_remaining_total, corp_remaining_total,
               initial_buffers, daily_market, daily_agents, results, run,
               results_fb, passed >>

\* E1 in eighths of a unit, up to QMax / 2 units
StressSteps == {(k * U) \div 8 : k \in 0..(4 * QMax)}

\* a bank of the population with some B0, E1 and willingness to extend
InitRepo ==
  /\ \E b \in Range(Banks(FactoryOrder, Population)), B0 \in {0, U, 4 * U},
        E1 \in StressSteps, w \in {0, 3500, 7000} :
       /\ agents = [Population EXCEPT ![b].liquidity.B0 = B0, ![b].liquidity.E1 = E1,
                                      ![b].willingness_to_extend_new_pct = w]
       /\ q = [ fn |-> "", calls |-> 0, bank |-> b ]
  /\ agent_list = FactoryOrder
  /\ network = NetworkA
  /\ pc = "harness"
  /\ NoRun

\* bank.assess_repo_request(requester, amount, network)
FirstAssess ==
  /\ pc = "harness" /\ q.calls = 0
  /\ \E net \in {NetworkA, EmptyNetwork, NoNetwork},
        requester \in {"HF_01", "HF_02", "LDI_01", "Insurer_01", "OEF_01"},
        amount \in {k * U : k \in 0..QMax} :
       /\ network' = net
       /\ q' = [ fn |-> "assess_repo_request", calls |-> 1, bank |-> q.bank,
                 requester |-> requester, amount |-> amount,
                 ret |-> assess_repo_request(agents[q.bank], requester, amount, net),
                 before |-> 0 ]
  /\ UNCHANGED << agents, pc >>
  /\ NoRunUnchanged

\* the same request once the bank's E1 has grown by a step
SecondAssess ==
  /\ pc = "harness" /\ q.calls = 1
  /\ agents' = [agents EXCEPT ![q.bank].liquidity.E1 = @ + U \div 8]
  /\ q' = [q EXCEPT !.calls = 2, !.before = q.ret,
                    !.ret = assess_repo_request(agents'[q.bank], q.requester,
                                                q.amount, network)]
  /\ UNCHANGED << network, pc >>
  /\ NoRunUnchanged

NextRepo == FirstAssess \/ SecondAssess

SpecRepo == InitRepo /\ [][NextRepo]_vars

\* E1 / max(B0, 1) >= threshold, in millionths
AtRefusalThreshold(bank) ==
  bank.liquidity.E1 * 1000 >=
    MulDiv(Max(bank.liquidity.B0, U), FEEDBACK_PARAMS.bank_repo_refusal_stress_threshold, 1000)

\* C13: assess_repo_request returns 0 for a requester without an edge to the
\* bank and when no network is given; otherwise
\* min(amount, capacity x willingness x risk_appetite x max(0, 1 - stress/threshold));
\* the result lies in 0..amount, is 0 once stress reaches the threshold, and
\* does not grow when the bank's stress grows.
C13_RepoAssessment ==
  q.fn = "assess_repo_request" =>
    LET bank == agents[q.bank]
        connected == network # NoNetwork /\ q.requester \in AllConnected(network, q.bank)
        full == MulDiv(MulDiv(bank.repo_capacity_mm, bank.willingness_to_extend_new_pct,
                              Den4), bank.risk_appetite, Den4)
    IN /\ ~connected => q.ret = 0
       /\ q.ret >= 0 /\ q.ret <= q.amount
       /\ AtRefusalThreshold(bank) => q.ret = 0
       /\ (connected /\ bank.liquidity.E1 = 0) => q.ret = Min(q.amount, full)
       /\ (connected /\ ~AtRefusalThreshold(bank)) =>
            q.ret = Min(q.amount, MulDiv(full, RefusalE1(bank) - bank.liquidity.E1,
                                         RefusalE1(bank)))
       /\ q.calls = 2 => q.ret <= q.before

\* a connected requester got part of what it asked from a stressed bank, and
\* less after the bank's stress grew
C13_Witness ==
  /\ q.fn = "assess_repo_request" /\ q.calls = 2
  /\ network # NoNetwork
  /\ q.requester \in AllConnected(network, q.bank)
  /\ 0 < q.ret /\ q.ret < q.before /\ q.before < q.amount

\* ---------------------------------------------------------------- C14
HedgeFunds == {n \in Range(agent_list) : agents[n].agent_type = "hedge_fund"}

RefusedImpliesSought ==
  /\ \A n \in HedgeFunds : agents[n].repo_refused_by_all => agents[n].has_ever_sought_repo
  /\ pc = "done" => results.summary.hfs_refused_by_all <= results.summary.hfs_seeking_repo

\* the step in which fund n's refusal flag is raised
RefusalRaised(n) == ~agents[n].repo_refused_by_all /\ agents'[n].repo_refused_by_all

\* C14: a hedge fund flagged repo_refused_by_all is flagged
\* has_ever_sought_repo, so every summary has hfs_refused_by_all <=
\* hfs_seeking_repo; and the refusal flag is raised only in the fund's own
\* stage 2 of a day on which it reacted, asked for more than 0 and obtained
\* exactly 0 from its connected banks together
C14_RefusedImpliesSought ==
  /\ []RefusedImpliesSought
  /\ [][ \A n \in HedgeFunds :
           RefusalRaised(n) =>
             /\ pc = "stage2" /\ agent_list[idx] = n
             /\ agents'[n].has_reacted
             /\ HF_repo_ask(Entry(agents[n])) > 0
             /\ RepoObtained(agents[n], get_connected_banks(network, n),
                             HF_repo_ask(Entry(agents[n])), market, network, agents) = 0 ]_vars

\* a run has ended with a fund that reacted and was refused by all its
\* banks, counted in the summary
C14_Witness ==
  /\ pc = "done"
  /\ \E n \in HedgeFunds : agents[n].repo_refused_by_all /\ agents[n].has_reacted
  /\ results.summary.hfs_refused_by_all >= 1


\* ---------------------------------------------------------------- C15
\* the item step k of the waterfall of `a` draws on, "" when it draws on none
StepItem(a, k) ==
  CASE a.agent_type = "bank" ->
         << "BoE Facility Eligible", "Repo Lending", "Gilt Holdings",
            "Corporate Bond Holdings" >>[k]
    [] a.agent_type = "hedge_fund" ->
         IF k \in 2..4 /\ k - 1 <= Len(HF_sales(a.strategy))
         THEN HF_sales(a.strategy)[k - 1][1] ELSE ""
    [] a.agent_type = "ldi_pension" ->
         << "Unencumbered Collateral", "", "", "Gilt Holdings", "IL Gilt Holdings",
            "Corporate Bond Holdings", "" >>[k]
    [] a.agent_type = "insurer" ->
         << "Committed Repo Lines", "RCF Available", "", "Gilt Holdings",
            "Corporate Bond Holdings", "Equity Portfolio", "" >>[k]
    [] a.agent_type = "oef_mmf" ->
         << "Cash Buffer", "Gilt Holdings", "Corporate Bond Holdings", "" >>[k]

\* whether step k asks the connected banks for repo, and the banks it asks
RepoStep(a, k) ==
  \/ a.agent_type = "hedge_fund" /\ k = 1
  \/ a.agent_type \in {"ldi_pension", "insurer"} /\ k = 3

StepBanks(a, net) ==
  CASE a.agent_type = "hedge_fund" -> get_connected_banks(net, a.name)
    [] a.agent_type = "ldi_pension" -> get_clearing_banks(net, a.name)
    [] a.agent_type = "insurer" -> insurer_banks(net, a.name)
    [] OTHER -> << >>

\* the agent with the amounts of `items` set to 0, or the items removed
Without(a, items, removed) ==
  [a EXCEPT !.balance_sheet =
     IF removed THEN [i \in DOMAIN @ \ items |-> @[i]]
     ELSE [i \in DOMAIN @ |-> IF i \in items THEN [@[i] EXCEPT !.amount_mm = 0] ELSE @[i]]]

\* the shortfalls an agent enters its waterfall with, in units of B1
Shortfalls == {0, U, 100 * U, 10000 * U}

\* an agent of the population about to react, with none, one or all of its
\* items at 0 or absent, in a network with or without edges
InitWaterfall ==
  /\ \E n \in Names, removed \in BOOLEAN, short \in Shortfalls :
       \E items \in {{}, DOMAIN Population[n].balance_sheet}
                    \cup {{i} : i \in DOMAIN Population[n].balance_sheet} :
         /\ agents = [Population EXCEPT
                        ![n] = [Without(@, items, removed) EXCEPT !.liquidity.B1 = -short]]
         /\ q = [ agent |-> n, k |-> 0, w |-> Entry(agents[n]), before |-> Entry(agents[n]) ]
  /\ network \in {NetworkA, EmptyNetwork}
  /\ agent_list = FactoryOrder
  /\ pc = "harness"
  /\ NoRun

\* the next step of compute_reactions
TakeStep ==
  /\ pc = "harness"
  /\ q.k < NSteps(agents[q.agent])
  /\ q' = [q EXCEPT !.k = @ + 1, !.before = q.w,
                    !.w = WaterfallStep(q.k + 1, q.w, market, network, agents)]
  /\ UNCHANGED << agents, network, pc >>
  /\ NoRunUnchanged

SpecWaterfall == InitWaterfall /\ [][TakeStep]_vars

\* the step just taken had nothing to draw on
NothingToDrawOn ==
  /\ q.k >= 1
  /\ \/ StepItem(q.before.self, q.k) # "" /\ ~Holds(q.before.self, StepItem(q.before.self, q.k))
     \/ RepoStep(q.before.self, q.k) /\ StepBanks(q.before.self, network) = << >>

\* C15: in every variant's waterfall, a step whose balance-sheet item is
\* absent or has amount 0, or a repo step of an agent with no connected
\* bank, records no action and hands the shortfall it received on to the
\* next step
C15_SkippedStep ==
  NothingToDrawOn => /\ q.w.reactions = q.before.reactions
                     /\ q.w.shortfall = q.before.shortfall

\* a step was skipped for an absent item, with a shortfall left and actions
\* recorded by the steps before it
C15_Witness ==
  /\ NothingToDrawOn
  /\ ~Has(q.before.self, StepItem(q.before.self, q.k))
  /\ q.before.shortfall > 0
  /\ DOMAIN q.before.reactions # {}


\* ---------------------------------------------------------------- C16
\* the amounts sold off agent n's balance sheet since construction
Sold(n) ==
  {i \in DOMAIN agents[n].balance_sheet :
     agents[n].balance_sheet[i].amount_mm < Population[n].balance_sheet[i].amount_mm}

\* C16: in every reachable state every balance-sheet item of every agent
\* has an amount >= 0, and every item has the sensitivity map it was
\* constructed with
C16_AmountsNonNegative ==
  \A n \in Names :
    /\ DOMAIN agents[n].balance_sheet = DOMAIN Population[n].balance_sheet
    /\ \A i \in DOMAIN agents[n].balance_sheet :
         /\ agents[n].balance_sheet[i].amount_mm >= 0
         /\ agents[n].balance_sheet[i].sensitivity_map
              = Population[n].balance_sheet[i].sensitivity_map

\* the sale reactions one day can leave an agent with: one or two sales,
\* of a small or a large amount
SaleReactions ==
  {[x \in S |-> amount] :
     S \in {T \in SUBSET StartsWithSell : Cardinality(T) \in {1, 2}},
     amount \in {4 * U, 30 * U}}

\* an agent of the population, before its first day
InitBook ==
  /\ agents = Population
  /\ \E n \in Names : q = [ agent |-> n, days |-> 0, booked |-> TRUE ]
  /\ agent_list = FactoryOrder
  /\ network = NetworkA
  /\ pc = "harness"
  /\ NoRun

\* a day's stage 2 leaves the agent with some sale reactions
ReactDay ==
  /\ pc = "harness" /\ q.booked /\ q.days < NDays
  /\ \E reactions \in SaleReactions :
       agents' = [agents EXCEPT ![q.agent].reactions = reactions,
                                ![q.agent].has_reacted = TRUE]
  /\ q' = [q EXCEPT !.booked = FALSE]
  /\ UNCHANGED << network, pc >>
  /\ NoRunUnchanged

\* _update_balance_sheets(agents) at the end of the day
BookDay ==
  /\ pc = "harness" /\ ~q.booked
  /\ agents' = _update_balance_sheets(agents)
  /\ q' = [q EXCEPT !.booked = TRUE, !.days = @ + 1]
  /\ UNCHANGED << network, pc >>
  /\ NoRunUnchanged

NextBook == ReactDay \/ BookDay

SpecBook == InitBook /\ [][NextBook]_vars

\* the sales of two days have been booked, two of them off one item, which
\* they have taken down to 0
C16_Witness ==
  /\ pc = "harness" /\ q.booked /\ q.days >= 2
  /\ Cardinality(DOMAIN agents[q.agent].reactions \cap ContainsSellGilt) = 2
  /\ \E i \in Sold(q.agent) : agents[q.agent].balance_sheet[i].amount_mm = 0


\* ---------------------------------------------------------------- C17
\* every agent has been through stage 1 of the day, none through stage 2
Stage1Done == pc = "stage2" /\ idx = 1

\* the stage-1 loss of agent n, computed from the day-d state of every agent
FreshE1(n) ==
  compute_stage1(agents[n], market, DayDelta(scenario, day), network, agents).liquidity.E1

\* C17: the per-day results do not depend on the order of the agent list;
\* in particular the stage-1 loss of every agent, a pooled fund's with its
\* redemptions, is the one computed from the day-d E1 and B0 of the agents
\* connected to it
C17_OrderIndependent ==
  Stage1Done => \A n \in Range(agent_list) : agents[n].liquidity.E1 = FreshE1(n)

\* the same, for the lists that end with the pooled funds
C17_FreshWhenPooledLast ==
  (Stage1Done /\ agent_list = FactoryOrder) =>
     \A n \in Range(agent_list) : agents[n].liquidity.E1 = FreshE1(n)


\* ---------------------------------------------------------------- C18
\* one feedback iteration leaves no agent with a smaller E2, nor, from the
\* second iteration of the day on, with a larger B3
IterationMonotone ==
  pc = "stage3" =>
    \A n \in Range(agent_list) :
      /\ agents'[n].liquidity.E2 >= agents[n].liquidity.E2
      /\ iter >= 1 => agents'[n].liquidity.B3 <= agents[n].liquidity.B3

\* the buffer every recorded day ended with is not above the stage-2 one
EndOfDayB3 == \A s \in Snapshots : s.B3 <= s.B2

\* C18: every stage-3 iteration adds e2 >= 0 to every agent's E2, so that
\* within a day E2 does not decrease and B3 does not increase from one
\* iteration to the next, and every day ends with B3 <= B2 for every agent
C18_FeedbackMonotone == []EndOfDayB3 /\ [][IterationMonotone]_vars

\* the part of C18 about the iterations alone
C18_IterationsMonotone == [][IterationMonotone]_vars

\* the end of the day where stage 3 has touched the agents
C18_EndOfDayWhenRun ==
  (~enable_feedback \/ feedback_iterations >= 1) => EndOfDayB3


\* ---------------------------------------------------------------- C19
\* the share of `selling` that falls to a bank with `rem` of the capacities
\* `rems` taken in one snapshot
SnapshotShare(selling, rems, b) ==
  LET total == SumF(rems, DOMAIN rems)
  IN IF total > 0 THEN MulDiv(selling, rems[b], total) ELSE 0

\* every bank of the day has absorbed
AllAbsorbed ==
  passed.absorbed # {} /\ passed.absorbed = Range(Banks(agent_list, agents))

\* C19: the share of the day's gilt selling handed to a bank is
\* selling * rem_i / sum_j rem_j with every rem of the snapshot taken before
\* any bank absorbed, and likewise for corporate bonds; where capacity is
\* left in total the shares handed out add up to the selling, up to the
\* rounding of one division a bank
C19_SharesFromSnapshot ==
  /\ \A b \in DOMAIN passed.shares :
       /\ passed.shares[b].gilt
            = SnapshotShare(market.endogenous_gilt_selling_mm, passed.gilt_rem, b)
       /\ passed.shares[b].corp
            = SnapshotShare(market.endogenous_corp_selling_mm, passed.corp_rem, b)
  /\ (AllAbsorbed /\ gilt_remaining_total > 0) =>
       LET handed == SumF([b \in DOMAIN passed.shares |-> passed.shares[b].gilt],
                          DOMAIN passed.shares)
       IN /\ handed <= market.endogenous_gilt_selling_mm
          /\ handed > market.endogenous_gilt_selling_mm - Cardinality(DOMAIN passed.shares) * Eps
  /\ (AllAbsorbed /\ corp_remaining_total > 0) =>
       LET handed == SumF([b \in DOMAIN passed.shares |-> passed.shares[b].corp],
                          DOMAIN passed.shares)
       IN /\ handed <= market.endogenous_corp_selling_mm
          /\ handed > market.endogenous_corp_selling_mm - Cardinality(DOMAIN passed.shares) * Eps

\* on the second day, with capacity already consumed, every bank has been
\* handed a positive share of the gilt selling and a bank that absorbed
\* earlier in the pass has less capacity left than in the snapshot
C19_Witness ==
  /\ AllAbsorbed /\ ~passed.recorded /\ day >= 1
  /\ \A b \in DOMAIN passed.shares : passed.shares[b].gilt > 0
  /\ \E b \in DOMAIN passed.shares : GiltRemaining(agents[b]) < passed.gilt_rem[b]
  /\ \E b \in DOMAIN passed.shares : agents[b].mm_appetite_consumed_pct > 0


\* ---------------------------------------------------------------- C20
\* the two willingness values of bank b
Willingness(agts, b) ==
  << agts[b].willingness_to_extend_new_pct, agts[b].willingness_to_roll_pct >>

\* the step is bank b's turn in the absorption pass
AbsorbTurn(b) == pc = "absorb" /\ Banks(agent_list, agents)[idx] = b

\* what a step of a run does to the willingness of the banks
TightenedInAbsorption ==
  run' = run =>
    \A b \in Range(Banks(agent_list, agents)) :
      /\ ~AbsorbTurn(b) => Willingness(agents', b) = Willingness(agents, b)
      /\ AbsorbTurn(b) =>
           /\ passed.stage2 = Range(agent_list)
           /\ IF agents[b].has_reacted
              THEN agents'[b].willingness_to_extend_new_pct
                     = Max(0, agents[b].willingness_to_extend_new_pct
                              - MulDiv(Den4 - agents[b].risk_appetite, 3, 10))
              ELSE Willingness(agents', b) = Willingness(agents, b)

\* C20: a bank that reacted on day d has its willingness to extend new repo
\* reduced by (1 - risk_appetite) * 0.3, floored at 0, in its turn of the
\* absorption pass, after every agent's stage 2 of the day, and in no other
\* step, so that the requests of day d are assessed with the willingness of
\* the start of the day and those of day d + 1 with the reduced one; a bank
\* that did not react keeps both willingness values that day
C20_TightenedAfterStage2 == [][TightenedInAbsorption]_vars

\* on the second day a hedge fund is about to ask a bank that reacted on
\* the first and extends less than at construction
C20_Witness ==
  /\ pc = "stage2" /\ day >= 1
  /\ agents[agent_list[idx]].agent_type = "hedge_fund"
  /\ \E b \in Range(get_connected_banks(network, agent_list[idx])) :
       agents[b].willingness_to_extend_new_pct < Population[b].willingness_to_extend_new_pct


\* ---------------------------------------------------------------- C21
\* a bank-hedge-fund edge of the network
BankHFEdge(b, h) == \E i \in DOMAIN network.bank_hf_edges : network.bank_hf_edges[i] = <<b, h>>

\* the reactions an agent could have recorded instead
OtherReactions == { EmptyMap, [x \in {"sell_gilt"} |-> 7 * U],
                    [x \in {"boe_facility", "reduce_repo_lending"} |-> 3 * U] }

\* the stresses a hedge fund could have had instead
OtherE1 == { 0, U, 9 * U }

\* the e2 of agent n in the present state, and with the reactions of agent
\* m, or its E1, replaced
E2Of(n, agts) == Stage3_e2(agts[n], agent_list, agts, market, network)

\* C21: in stage 3 a bank's reactions enter a hedge fund's e2 only if the
\* bank has reacted that day and a bank-hedge-fund edge connects the two,
\* and a hedge fund's stress enters a bank's e2 only if the fund has reacted
\* and is connected to the bank: with the set of reacting agents kept,
\* other reactions of such a bank, or another E1 of such a fund, leave the
\* e2 unchanged
C21_BilateralNeedsEdge ==
  pc = "stage3" =>
    \A b \in Range(Banks(agent_list, agents)), h \in HedgeFunds :
      /\ (~BankHFEdge(b, h) \/ ~agents[b].has_reacted) =>
           (\A r \in OtherReactions :
              E2Of(h, [agents EXCEPT ![b].reactions = r]) = E2Of(h, agents))
      /\ (~BankHFEdge(b, h) \/ ~agents[h].has_reacted) =>
           (\A e \in OtherE1 :
              E2Of(b, [agents EXCEPT ![h].liquidity.E1 = e]) = E2Of(b, agents))

\* a bank that has reacted and recorded reactions has no edge to a hedge
\* fund whose e2 does move with the reactions of a connected bank
C21_Witness ==
  /\ pc = "stage3"
  /\ \E h \in HedgeFunds :
       /\ \E b \in Range(Banks(agent_list, agents)) :
            /\ ~BankHFEdge(b, h) /\ agents[b].has_reacted
            /\ DOMAIN agents[b].reactions # {}
       /\ \E b \in Range(Banks(agent_list, agents)) :
            /\ BankHFEdge(b, h) /\ agents[b].has_reacted
            /\ E2Of(h, [agents EXCEPT ![b].reactions = EmptyMap]) # E2Of(h, agents)


\* ---------------------------------------------------------------- C22
\* the (shortfall_alloc_pct, holding_cap_pct) pair the configuration holds
\* for a sale action of an agent
SalePair(a, action) ==
  LET caps == REACTION_PARAMS[a.agent_type]
  IN IF a.agent_type = "hedge_fund"
        /\ a.strategy \notin {"relative_value", "macro_rates", "credit_long_short",
                              "long_short_equity"}
     THEN caps.multi_strategy
     ELSE CASE action = "sell_gilt" -> caps.sell_gilt
            [] action = "sell_gilt_il" -> caps.sell_il_gilt
            [] action = "sell_gilt_basis_unwind" -> caps.sell_basis_unwind
            [] action = "sell_corp_bonds" -> caps.sell_corp
            [] action = "sell_equity" -> caps.sell_equity

\* the sale the step just taken has recorded, if any
NewSales == (DOMAIN q.w.reactions \ DOMAIN q.before.reactions) \cap StartsWithSell

\* C22: every sale a waterfall records is >= 0, at most shortfall_alloc_pct
\* of the shortfall left when its step was reached and at most
\* holding_cap_pct of the amount of the item sold, the pair being the one
\* configured for the action and the agent type
C22_SaleCaps ==
  \A action \in NewSales :
    LET pair == SalePair(q.before.self, action)
        sale == q.w.reactions[action]
    IN /\ sale >= 0
       /\ sale <= MulDiv(q.before.shortfall, pair[1], 1000)
       /\ sale <= MulDiv(Amt(q.before.self, StepItem(q.before.self, q.k)), pair[2], 1000)

\* a step has recorded a sale at its holding cap, below the share of the
\* shortfall it could have taken
C22_Witness ==
  \E action \in NewSales :
    LET pair == SalePair(q.before.self, action)
        sale == q.w.reactions[action]
    IN /\ sale > 0
       /\ sale = MulDiv(Amt(q.before.self, StepItem(q.before.self, q.k)), pair[2], 1000)
       /\ sale < MulDiv(q.before.shortfall, pair[1], 1000)


\* ---------------------------------------------------------------- C23
LDIFunds == {n \in Range(agent_list) : agents[n].agent_type = "ldi_pension"}

\* the days left of the recap_speed_days of fund `a` on the present day
DaysRemaining(a) == Max(a.recap_speed_days - day, 1)

\* what a step of a run draws from the recapitalisation of the LDI funds
RecapLimited ==
  run' = run =>
    \A n \in LDIFunds :
      LET a == agents[n]
          drawn == agents'[n].recap_used_mm - a.recap_used_mm
      IN /\ drawn >= 0
         /\ drawn <= (a.recap_available_mm - a.recap_used_mm) \div DaysRemaining(a)
         /\ agents'[n].recap_used_mm <= a.recap_available_mm
         /\ drawn > 0 => agents'[n].reactions["recapitalisation"] = drawn

\* an LDI fund of the population with some recapitalisation agreed, before
\* its first day
InitRecap ==
  /\ \E n \in {m \in Names : Population[m].agent_type = "ldi_pension"},
        available \in {0, U, 6 * U, 50 * U}, speed \in {1, 3, 5} :
       /\ agents = [Population EXCEPT ![n].recap_available_mm = available,
                                      ![n].recap_speed_days = speed]
       /\ q = [ agent |-> n ]
  /\ agent_list = FactoryOrder
  /\ network = NetworkA
  /\ pc = "harness"
  /\ NoRun

\* one day: the fund reacts to some shortfall
RecapDay ==
  /\ pc = "harness" /\ day < NDays
  /\ \E short \in Shortfalls :
       LET a == [reset_daily(agents[q.agent]) EXCEPT !.liquidity.B1 = -short]
           w == RunSteps(NSteps(a), Entry(a), market, network, agents)
       IN agents' = [agents EXCEPT
                       ![q.agent] = [w.self EXCEPT !.reactions = w.reactions,
                                                   !.has_reacted = TRUE]]
  /\ day' = day + 1
  /\ UNCHANGED << agent_list, network, market, scenario, enable_feedback,
                  feedback_iterations, pc, idx, iter, gilt_remaining_total,
                  corp_remaining_total, initial_buffers, daily_market, daily_agents,
                  results, run, results_fb, passed, q >>

SpecRecap == InitRecap /\ [][RecapDay]_vars

\* C23: the recapitalisation an LDI fund draws on a day is at most
\* (available - used) / (days remaining of its days-to-deploy), and the
\* amount drawn over the days of a run never exceeds the amount available
C23_RecapLimited == [][RecapLimited]_vars

\* after its second day a fund that drew on the first has drawn again, less
\* than the shortfall asked for, and has recapitalisation left
C23_Witness ==
  /\ pc = "harness" /\ day >= 2
  /\ \E n \in LDIFunds :
       /\ "recapitalisation" \in DOMAIN agents[n].reactions
       /\ agents[n].reactions["recapitalisation"] > 0
       /\ agents[n].recap_used_mm > agents[n].reactions["recapitalisation"]
       /\ agents[n].recap_used_mm < agents[n].recap_available_mm
       /\ agents[n].reactions["recapitalisation"] < U


\* ---------------------------------------------------------------- C24
\* the node set and the four typed edge lists of a network
Wiring(net) ==
  << net.graph.nodes, net.bank_hf_edges, net.bank_ldi_edges, net.bank_insurer_edges,
     net.nbfi_oef_edges >>

\* C24: no step of run_simulation, on any day and in any stage, changes the
\* node set or one of the four typed edge lists of the network
C24_NetworkReadOnly == [][Wiring(network') = Wiring(network)]_vars

\* a second day has gone through stage 3 with the network the run started
\* with, after repo was obtained over its edges and a bank has tightened
C24_Witness ==
  /\ pc = "record" /\ day >= 1 /\ passed.stage3 >= 1
  /\ Wiring(network) = Wiring(NetworkA)
  /\ \E n \in Range(agent_list) : "seek_repo" \in DOMAIN agents[n].reactions
  /\ \E b \in Range(Banks(agent_list, agents)) :
       agents[b].willingness_to_extend_new_pct < Population[b].willingness_to_extend_new_pct


\* ---------------------------------------------------------------- C25
\* C25: on every day of a run the B0 of every agent, as stage 1 recomputes
\* it and as the day's snapshot records it, is the value stored in
\* initial_buffers before the first day
C25_B0Constant ==
  pc # "init" =>
    /\ \A s \in Snapshots : s.B0 = initial_buffers[s.agent]
    /\ \A n \in Range(agent_list) : agents[n].liquidity.B0 = initial_buffers[n]

\* on the second day B0 has been recomputed for an agent whose sales of the
\* first day have left its balance sheet
C25_Witness ==
  /\ day >= 1 /\ pc = "stage2"
  /\ \E n \in Range(agent_list) :
       /\ Sold(n) # {} /\ n \in passed.stage1
       /\ agents[n].liquidity.B0 = initial_buffers[n] /\ initial_buffers[n] > 0


\* ---------------------------------------------------------------- C26
\* the e2 an iteration run in the present state adds to agent n
Contribution(n) == IF NobodyReacted THEN 0 ELSE E2Of(n, agents)

\* C26: with feedback enabled, after k iterations of a day the E2 of every
\* agent is k times the contribution of one iteration, computed with the
\* market as any of the iterations has left it; at the end of the day k is
\* feedback_iterations
C26_EqualContributions ==
  (enable_feedback /\ pc \in {"stage3", "record"}) =>
     /\ pc = "record" => passed.stage3 = feedback_iterations
     /\ \A n \in Range(agent_list) :
          agents[n].liquidity.E2 = passed.stage3 * Contribution(n)

\* a day ends after two iterations that have moved the market, with an
\* agent that has taken a positive contribution twice
C26_Witness ==
  /\ enable_feedback /\ pc = "record" /\ passed.stage3 >= 2
  /\ market # apply_exogenous_scenario(market, DayValues(scenario, day))
  /\ \E n \in Range(agent_list) :
       Contribution(n) > 0 /\ agents[n].liquidity.E2 = passed.stage3 * Contribution(n)


\* ---------------------------------------------------------------- C27
\* scenario values of the volatility index, below, at and above the 15
\* points the market is built with
VixLevels == {10, 15, 30, 60, 75}

\* reactions of one agent of a day, as register_actions_to_market reads them
Registered ==
  { "sell_gilt" :> 1000 * U, "sell_corp_bonds" :> 500 * U,
    "seek_repo" :> 2000 * U, "draw_repo_line" :> 20000 * U }

\* a market as constructed, before any day
InitMarket ==
  /\ agents = Population
  /\ agent_list = FactoryOrder
  /\ network = NetworkA
  /\ pc = "harness"
  /\ q = [ calls |-> 0 ]
  /\ NoRun

MarketUnchanged ==
  UNCHANGED << agents, agent_list, network, scenario, enable_feedback,
               feedback_iterations, pc, day, idx, iter, gilt_remaining_total,
               corp_remaining_total, initial_buffers, daily_market, daily_agents,
               results, run, results_fb, passed >>

\* a day starts with some value of the volatility index
ExogenousDay ==
  /\ pc = "harness" /\ q.calls <= QMax
  /\ \E vix \in VixLevels :
       market' = apply_exogenous_scenario(market, [Calm EXCEPT !["vix"] = vix])
  /\ q' = [ calls |-> q.calls + 1 ]
  /\ MarketUnchanged

\* an agent's reactions are registered
RegisterDay ==
  /\ pc = "harness" /\ q.calls <= QMax
  /\ \E r \in Registered :
       market' = register_actions_to_market([reactions |-> r], market)
  /\ q' = [ calls |-> q.calls + 1 ]
  /\ MarketUnchanged

\* one iteration's market feedback
EndogenousDay ==
  /\ pc = "harness" /\ q.calls <= QMax
  /\ market' = apply_endogenous_feedback(market)
  /\ q' = [ calls |-> q.calls + 1 ]
  /\ MarketUnchanged

NextMarket == ExogenousDay \/ RegisterDay \/ EndogenousDay

SpecMarket == InitMarket /\ [][NextMarket]_vars

\* what a repo action of the nominal amount adds to B2
RepoCredit(amount) ==
  MulDiv(amount, Realisation("seek_repo", market), Den4)

\* C27: after any sequence of apply_exogenous_scenario and
\* apply_endogenous_feedback calls, for any volatility index >= 0, the repo
\* market availability lies in [0.5, 1.0], so that a repo action is credited
\* to B2 with at most its nominal amount
C27_RepoAvailabilityBounded ==
  /\ market.repo_market_availability_pct >= Den4 \div 2
  /\ market.repo_market_availability_pct <= Den4
  /\ RepoCredit(100 * U) <= 100 * U

\* the part that holds: the availability never falls below 0.5, and is at
\* most 1.0 whenever the day's volatility index is at least 15
C27_BoundedFromFifteen ==
  /\ market.repo_market_availability_pct >= Den4 \div 2
  /\ market.vix_level >= 15 => market.repo_market_availability_pct <= Den4


\* ---------------------------------------------------------------- C28
\* the item whose holding caps the sale an agent records under `action`
\* in its compute_reactions, "" for the actions that are no sales
CappedBy(a, action) ==
  CASE action = "sell_gilt_il" -> "IL Gilt Holdings"
    [] action = "sell_gilt_basis_unwind" -> "Basis Trade Positions"
    [] action = "sell_equity" ->
         IF a.agent_type = "hedge_fund" THEN "Equity Positions" ELSE "Equity Portfolio"
    [] action = "sell_gilt" ->
         IF a.agent_type = "hedge_fund" THEN "Gilt Positions (net)" ELSE "Gilt Holdings"
    [] action = "sell_corp_bonds" ->
         IF a.agent_type = "hedge_fund" THEN "Corp Bond Positions"
         ELSE "Corporate Bond Holdings"
    [] OTHER -> ""

\* what agent a has recorded as sold out of the holding of item i
SoldOff(a, i) ==
  LET sales == {action \in DOMAIN a.reactions : CappedBy(a, action) = i}
  IN SumF(a.reactions, sales)

\* the end-of-day update takes every recorded sale out of the item that
\* capped it, down to 0 at most, and changes no other amount
BookedAsCapped ==
  pc = "record" =>
    \A n \in Range(agent_list) : \A i \in DOMAIN agents[n].balance_sheet :
      agents'[n].balance_sheet[i].amount_mm
        = agents[n].balance_sheet[i].amount_mm
            - Min(SoldOff(agents[n], i), agents[n].balance_sheet[i].amount_mm)

\* C28: at the end of each day every recorded sale reduces the amount of
\* exactly the item whose holding capped it, by min(sale, amount), and no
\* other item: an inflation-linked gilt sale the IL gilt item, a basis unwind
\* the basis trade item, an equity sale the equity item, a gilt sale the gilt
\* item and a corporate-bond sale the corporate-bond item
C28_BookedAsCapped == [][BookedAsCapped]_vars

\* the same for the sales recorded as sell_gilt and sell_corp_bonds alone
BookedGiltAndCorp ==
  pc = "record" =>
    \A n \in Range(agent_list) :
      \A action \in DOMAIN agents[n].reactions \cap {"sell_gilt", "sell_corp_bonds"} :
        LET a == agents[n]
            i == CappedBy(a, action)
        IN (Cardinality(DOMAIN a.reactions \cap ContainsSellGilt) = 1) =>
             agents'[n].balance_sheet[i].amount_mm
               = a.balance_sheet[i].amount_mm
                   - Min(a.reactions[action], a.balance_sheet[i].amount_mm)

C28_GiltAndCorpBooked == [][BookedGiltAndCorp]_vars


\* ---------------------------------------------------------------- C29
\* the agents whose compute_reactions asks banks for repo in stage 2
RepoRequesters ==
  {n \in Names : Population[n].agent_type \in {"hedge_fund", "ldi_pension", "insurer"}}

\* repo_capacity_mm * willingness_to_extend_new_pct
AvailableNewRepo(bank) ==
  MulDiv(bank.repo_capacity_mm, bank.willingness_to_extend_new_pct, Den4)

\* a bank of the population with some willingness to extend and some E1, at
\* the start of a day's stage 2
InitGrant ==
  /\ \E b \in Range(Banks(FactoryOrder, Population)), w \in {3500, 7000},
        E1 \in {0, U \div 2} :
       /\ agents = [Population EXCEPT ![b].liquidity.E1 = E1,
                                      ![b].willingness_to_extend_new_pct = w]
       /\ q = [ bank |-> b, asked |-> {}, granted |-> 0, last |-> 0 ]
  /\ agent_list = FactoryOrder
  /\ network = NetworkA
  /\ pc = "harness"
  /\ NoRun

\* the stage 2 of one more agent asks the bank for some amount
RequestRepo ==
  /\ pc = "harness"
  /\ \E requester \in RepoRequesters \ q.asked, amount \in {U, 10 * U, 20 * U} :
       LET granted == assess_repo_request(agents[q.bank], requester, amount, network)
       IN q' = [ bank |-> q.bank, asked |-> q.asked \cup {requester},
                 granted |-> q.granted + granted, last |-> granted ]
  /\ UNCHANGED << agents, network, pc >>
  /\ NoRunUnchanged

SpecGrant == InitGrant /\ [][RequestRepo]_vars

\* C29: on a day the repo one bank grants, summed over the
\* assess_repo_request calls of the hedge funds, LDI funds and insurers
\* connected to it, is at most the bank's available new-repo capacity
\* (repo_capacity x willingness_to_extend_new), for any number of requesters
\* in any order
C29_GrantsWithinCapacity == q.granted <= AvailableNewRepo(agents[q.bank])

\* the part that holds: every single grant is at most the available
\* capacity times the bank's risk appetite
C29_EachGrantWithinCapacity ==
  q.last <= MulDiv(AvailableNewRepo(agents[q.bank]), agents[q.bank].risk_appetite, Den4)


\* ---------------------------------------------------------------- C30
\* a bank of the population with some of its market-making appetite
\* consumed, before its first day
InitAbsorb ==
  /\ \E b \in Range(Banks(FactoryOrder, Population)), gilt \in {0, 3000, Den4},
        corp \in {0, 3000, 9900} :
       /\ agents = [Population EXCEPT ![b].mm_appetite_consumed_pct = gilt,
                                      ![b].corp_appetite_consumed_pct = corp]
       /\ q = [ bank |-> b, days |-> 0, gilt |-> 0, corp |-> 0, before |-> agents[b] ]
  /\ agent_list = FactoryOrder
  /\ network = NetworkA
  /\ pc = "harness"
  /\ NoRun

\* a day's absorption: the bank is given its shares of the gilt and of the
\* corporate-bond selling of the day
AbsorbDay ==
  /\ pc = "harness" /\ q.days <= NDays
  /\ \E gilt \in {0, U, 20 * U}, corp \in {0, U \div 2, 20 * U} :
       /\ agents' = [agents EXCEPT
                       ![q.bank] = post_registration_update(agents[q.bank], gilt, corp)]
       /\ q' = [ bank |-> q.bank, days |-> q.days + 1, gilt |-> gilt, corp |-> corp,
                 before |-> agents[q.bank] ]
  /\ UNCHANGED << network, pc >>
  /\ NoRunUnchanged

SpecAbsorb == InitAbsorb /\ [][AbsorbDay]_vars

\* C30: with non-negative selling, a bank's consumed fractions of its gilt
\* and corporate-bond market-making appetite stay within [0, 1] and do not
\* decrease from one day to the next, and what the bank absorbs in a day is
\* at most its allocated share and at most the capacity it had left when the
\* day's absorption started
C30_AbsorptionBounded ==
  LET old == q.before
      new == agents[q.bank]
      gilt == GiltAbsorbed(old, q.gilt)
      corp == CorpAbsorbed(old, q.corp)
  IN /\ new.mm_appetite_consumed_pct \in 0..Den4
     /\ new.corp_appetite_consumed_pct \in 0..Den4
     /\ new.mm_appetite_consumed_pct >= old.mm_appetite_consumed_pct
     /\ new.corp_appetite_consumed_pct >= old.corp_appetite_consumed_pct
     /\ 0 <= gilt /\ gilt <= q.gilt /\ gilt <= GiltRemaining(old)
     /\ 0 <= corp /\ corp <= q.corp /\ corp <= CorpRemaining(old)
     /\ new.mm_appetite_consumed_pct
          = Min(Den4, old.mm_appetite_consumed_pct
                        + MulDiv(gilt, Den4, old.gilt_mm_appetite_mm))
     /\ new.corp_appetite_consumed_pct
          = Min(Den4, old.corp_appetite_consumed_pct
                        + MulDiv(corp, Den4, old.corp_mm_appetite_mm))

\* on its second day or later a bank was offered more gilts than it had
\* capacity left for, absorbed some, and has consumed more of its appetite
\* than on the day before, which was more than it started with
C30_Witness ==
  /\ pc = "harness" /\ q.days >= 2
  /\ q.gilt > GiltRemaining(q.before)
  /\ GiltAbsorbed(q.before, q.gilt) > 0
  /\ agents[q.bank].mm_appetite_consumed_pct > q.before.mm_appetite_consumed_pct
  /\ q.before.mm_appetite_consumed_pct > 3000
  /\ agents[q.bank].mm_appetite_consumed_pct < Den4

====
